---- MODULE Spec2Model ----
(***************************************************************************)
(* A model of the two concurrent subsystems of bahamut:                    *)
(*                                                                         *)
(*   - PushSession (src/config.go): the read loop, the write loop and the  *)
(*     control loop of one websocket session, DirectPush callers and       *)
(*     close() callers, with the three stop channels;                      *)
(*   - the push Upstreamer (src/gateway/upstreamer/push/upstreamer.go):    *)
(*     the listener that keeps the service registry and the RouteTable,    *)
(*     concurrent Collect and Upstream calls.                              *)
(*                                                                         *)
(* The two subsystems share no state.  SessionSpec runs the session and    *)
(* leaves the upstreamer's variables alone; the upstreamer's               *)
(* specifications do the converse.                                         *)
(***************************************************************************)
EXTENDS Integers, Sequences, FiniteSets, TLC

(***************************************************************************)
(* Bounds of the model.                                                    *)
(***************************************************************************)
MaxPush == 2            \* events given to DirectPush over one run
MaxFrames == 2          \* filter frames the peer sends over one run
MaxShutdownPush == 1    \* the same two, in the runs in which close() is called
MaxShutdownFrames == 1
MaxPings == 3           \* publications the listener receives over one run
MaxTime == 2            \* the clock runs from 0 to MaxTime
MaxCollects == 2        \* Collect calls over one run
MaxUpstreams == 1       \* Upstream calls over one run
MaxCapacity == 3        \* the capacities of a MovingAverage run from 1 to MaxCapacity
MaxAdds == 4            \* samples added to one MovingAverage
MaxPath == 6            \* characters of a path after its leading '/'
MaxChanCap == 2         \* the capacities of a subscriber's channel run from 0 to MaxChanCap
MaxRetries == 2         \* failed attempts to connect a consumer over one run
MaxMessages == 3        \* messages of the partition over one run

(***************************************************************************)
(* Program constants.                                                      *)
(***************************************************************************)
StopAllCap == 2     \* make(chan bool, 2)
StopReadCap == 2    \* make(chan bool, 2)
StopWriteCap == 2   \* make(chan bool, 2)
ReadChanCap == 8    \* make(chan *elemental.Request, 8), make(chan *elemental.PushFilter, 8)

pushSessionTypeEvent == "Event"
pushSessionTypeAPI == "API"

(***************************************************************************)
(* Values.                                                                 *)
(***************************************************************************)
\* A nil *elemental.PushFilter.
NilFilter == [nil |-> TRUE, out |-> {}]
\* No frame, no event: what a loop holds between two of them.
NoFrame == [none |-> TRUE]
NoEvent == [n |-> 0, call |-> 0, Timestamp |-> 0, Identity |-> "", Type |-> ""]

\* time.Now() at construction; event timestamps lie around it.
StartTime == 1
Timestamps == (StartTime - 1) .. (StartTime + 1)

Identities == {"I", "J"}
EventTypes == {"create"}
Kinds == Identities \X EventTypes


\* A push filter is an opaque predicate over (identity, type): the set of the
\* pairs it filters out.  A filter frame holding JSON null decodes to nil.
FilterPool == {NilFilter, [nil |-> FALSE, out |-> {<<"I", "create">>}]}

Operations == {"retrieve-many", "retrieve", "create", "update", "delete", "info", "patch"}
\* The operations a request frame of the model carries: a known one and an unknown one.
RequestPool == {[Operation |-> "create", Username |-> "u", Password |-> "p"],
                [Operation |-> "bogus", Username |-> "u", Password |-> "p"]}
\* Requests of one operation, and of an operation that is none of the seven.
OperationPool(operation) ==
    [Operation : {operation, "bogus"}, Username : {"u"}, Password : {"p"}]
\* The same with a request that carries no credentials.
CredentialPool == RequestPool \cup {[Operation |-> "create", Username |-> "", Password |-> ""]}

\* s.Parameters, the query parameters of the session: the token key is
\* absent, empty or holds a token.
NoToken == [has |-> FALSE, token |-> ""]
ParameterPool == {NoToken, [has |-> TRUE, token |-> ""], [has |-> TRUE, token |-> "t1"]}
\* url.Values.Get("token"): the empty string for a key that is absent
Get(parameters) == IF parameters.has THEN parameters.token ELSE ""

\* The goroutines that call DirectPush, and the one that calls close().
Callers == {"p1", "p2"}
Closers == {"k1"}

\* What one run is fed with: the role of the session, the events its
\* DirectPush callers draw from and how many they push, the filter frames its
\* peer draws from and how many it sends, and the goroutines that call
\* DirectPush and close().  A run varies one of these, not all of them at once.
BothRoles == {pushSessionTypeEvent, pushSessionTypeAPI}
OneFilter == {[nil |-> FALSE, out |-> {<<"I", "create">>}]}
PlainEvent == [Timestamp : {StartTime}, Identity : {"J"}, Type : EventTypes]
Workloads ==
    {\* the timestamps vary; the peer sends nothing
     [roles |-> {pushSessionTypeEvent},
      events |-> [Timestamp : Timestamps, Identity : {"J"}, Type : EventTypes],
      pushes |-> MaxPush, filters |-> OneFilter, frames |-> 0,
      callers |-> {"p1"}, closers |-> {},
      parameters |-> NoToken, requests |-> RequestPool],
     \* the identities and the filters vary
     [roles |-> {pushSessionTypeEvent},
      events |-> [Timestamp : {StartTime}, Identity : Identities, Type : EventTypes],
      pushes |-> MaxPush, filters |-> FilterPool, frames |-> MaxFrames,
      callers |-> {"p1"}, closers |-> {},
      parameters |-> NoToken, requests |-> RequestPool],
     \* concurrent DirectPush calls; the peer sends nothing
     [roles |-> {pushSessionTypeEvent},
      events |-> PlainEvent,
      pushes |-> MaxPush, filters |-> OneFilter, frames |-> 0,
      callers |-> Callers, closers |-> {},
      parameters |-> NoToken, requests |-> RequestPool],
     \* close() is called, in both roles, next to a DirectPush caller and a
     \* peer that sends one frame
     [roles |-> BothRoles,
      events |-> [Timestamp : {StartTime - 1, StartTime}, Identity : {"I"},
                  Type : EventTypes],
      pushes |-> MaxShutdownPush, filters |-> OneFilter, frames |-> 1,
      callers |-> {"p1"}, closers |-> Closers,
      parameters |-> NoToken, requests |-> RequestPool],
     \* close() is called, in both roles, next to a peer that sends frames
     [roles |-> BothRoles,
      events |-> PlainEvent,
      pushes |-> 0, filters |-> OneFilter, frames |-> MaxShutdownFrames,
      callers |-> {}, closers |-> Closers,
      parameters |-> NoToken, requests |-> RequestPool],
     \* the peer sends more frames than the read-side buffer holds, in both
     \* roles, and close() is called
     [roles |-> BothRoles,
      events |-> PlainEvent,
      pushes |-> 0, filters |-> OneFilter, frames |-> ReadChanCap + 1,
      callers |-> {}, closers |-> Closers,
      parameters |-> NoToken,
      requests |-> {[Operation |-> "bogus", Username |-> "u", Password |-> "p"]}]}
    \cup
    \* requests of an API session and their handlers, with and without a token
    {[roles |-> {pushSessionTypeAPI},
      events |-> PlainEvent,
      pushes |-> 0, filters |-> OneFilter, frames |-> MaxFrames,
      callers |-> {}, closers |-> {},
      parameters |-> ps, requests |-> CredentialPool] : ps \in ParameterPool}
    \cup
    \* requests of an API session, of each operation in turn
    {[roles |-> {pushSessionTypeAPI},
      events |-> PlainEvent,
      pushes |-> 0, filters |-> OneFilter, frames |-> MaxFrames,
      callers |-> {}, closers |-> {},
      parameters |-> NoToken, requests |-> OperationPool(operation)] :
        operation \in Operations}

VARIABLES
    \* ---- the run
    workload,         \* the events, the frames and the callers of this run
    sType,            \* s.sType
    \* ---- the stop channels: the number of values each one buffers
    stopAll,          \* s.stopAll
    stopRead,         \* s.stopRead
    stopWrite,        \* s.stopWrite
    stopAllSignalled, \* (observation) a value was sent on stopAll
    \* ---- the control loop (listen)
    cpc,              \* where the control loop is
    filter,           \* s.filter
    socketOpen,       \* FALSE once s.socket.Close() ran
    refsCleared,      \* TRUE once processorFinder, pushEventsFunc, unregisterFunc are nil
    dispatched,       \* operations for which the control loop started a handler
    unregisterCalls,  \* (observation) calls of the unregister callback
    steps,            \* (observation) the statements of the deferred function, as they ran
    \* ---- the read loop
    rpc,              \* where the read loop is
    rframe,           \* the frame the read loop holds
    inbox,            \* s.filters (Event) or s.requests (API): the buffered frames
    framesLeft,       \* inbound frames the peer may still send
    \* ---- the write loop
    wpc,              \* where the write loop is
    wevent,           \* the event the write loop holds
    frames,           \* (observation) the events written to the socket, in order
    wlog,             \* (observation) what the write loop did with each event it received
    \* ---- DirectPush and close callers
    dp,               \* DirectPush callers
    nextSerial,       \* serial number of the next event given to DirectPush
    given,            \* (observation) the events given to DirectPush, by serial number
    overlap,          \* (observation) pairs of DirectPush calls that ran concurrently
    closePc,          \* close() callers
    \* ---- the operation handlers of an API session
    handlers,         \* the handlers that run: [n, nth, handler, Operation, ...]
    responses,        \* (observation) the responses written, in order
    panics,           \* (observation) the requests whose dispatcher panicked
    dispatcherArgs,   \* (observation) the references the handlers passed to their dispatchers
    \* ---- the Upstreamer: configuration and run
    uload,            \* c.config and what this run is fed with
    now,              \* time.Now()
    pingsLeft,        \* publications the pubsub may still deliver
    \* ---- the Upstreamer: the listener (listenService)
    lpc,              \* where the listener is
    lping,            \* the ping it is handling
    services,         \* services: name -> [routes, privateRoutes, endpoints]
    heap,             \* the endpointInfo objects: <<name, address>> -> [lastLoad, lastSeen]
    requiredServices, \* requiredServices: name -> seen
    requiredReady,    \* requiredReady
    requiredNotifSent, \* requiredNotifSent
    ready,            \* how many times close(ready) ran
    \* ---- the Upstreamer: shared with Upstream and Collect
    apis,             \* c.apis, the RouteTable: identity -> sequence of endpoints
    rlock,            \* the calls that hold c.lock.RLock()
    feedbackLoop,     \* c.feedbackLoop: address -> MovingAverage
    col,              \* Collect calls
    collectsLeft,
    up,               \* Upstream calls
    upstreamsLeft,
    \* ---- the Upstreamer: observations
    tickSeen,         \* the endpoints the tick just handled found, outdated and not
    helloHandled,     \* the required service names whose hello was handled
    removedHandled,   \* the addresses whose removal was handled
    closedAt,         \* publications received when ready was closed, -1 before
    collected,        \* Collect calls that returned, by address: those that sampled
                      \* and those whose non-zero duration was below a microsecond
    \* ---- the library functions, on their own
    movingAverage,    \* a MovingAverage
    added,            \* (observation) the samples added to it, in order
    path,             \* a request path, as its characters
    segments,         \* (observation) the segments the path was written from
    \* ---- kafkaPubSub.Subscribe
    subPc,            \* where the goroutine of the subscription is
    unsubscribePc,    \* where the caller of the function Subscribe returned is
    cLen,             \* the publications buffered in c
    cCap,             \* cap(c): c is made by the subscriber
    cClosed,          \* the number of close(c)
    reading,          \* the subscriber still receives from c
    messagesLeft,     \* messages the partition still has for this run
    retriesLeft,      \* failures to connect still to come in this run
    sentAfterReturn   \* (observation) a publication was sent on c after unsubscribe returned

runVars == <<workload, sType>>
stopVars == <<stopAll, stopRead, stopWrite, stopAllSignalled>>
controlVars == <<cpc, filter, socketOpen, refsCleared, dispatched, unregisterCalls, steps>>
readVars == <<rpc, rframe, inbox, framesLeft>>
writeVars == <<wpc, wevent, frames, wlog>>
pushVars == <<dp, nextSerial, given, overlap>>

handlerVars == <<handlers, responses, panics, dispatcherArgs>>

sessVars == <<runVars, stopVars, controlVars, readVars, writeVars, pushVars, closePc,
              handlerVars>>

cfgVars == <<uload>>
envVars == <<now, pingsLeft>>
listenerVars == <<lpc, lping, services, heap, requiredServices, requiredReady,
                  requiredNotifSent, ready>>
sharedVars == <<apis, rlock, feedbackLoop>>
callVars == <<col, collectsLeft, up, upstreamsLeft>>
obsVars == <<tickSeen, helloHandled, removedHandled, closedAt, collected>>

upVars == <<cfgVars, envVars, listenerVars, sharedVars, callVars, obsVars>>

kafkaVars == <<subPc, unsubscribePc, cLen, cCap, cClosed, reading, messagesLeft,
               retriesLeft, sentAfterReturn>>
libVars == <<movingAverage, added, path, segments, kafkaVars>>

vars == <<sessVars, upVars, libVars>>

(***************************************************************************)
(* Helpers.                                                                *)
(***************************************************************************)
RECURSIVE SeqsUpTo(_, _)
\* The sequences over S of length 1..n.
SeqsUpTo(S, n) ==
    IF n = 0 THEN {}
    ELSE LET shorter == SeqsUpTo(S, n - 1)
         IN  {<<x>> : x \in S} \cup {Append(s, x) : s \in shorter, x \in S}

\* a buffered channel that holds one value less
CanSend_OneLess(n, cap) == n < cap - 1
\* A send on a buffered channel holding n values of capacity cap does not block.
CanSend(n, cap) == n < cap

(***************************************************************************)
(* PushSession: construction.                                              *)
(***************************************************************************)
IdleCall == [evs |-> <<>>, pos |-> 1, handed |-> <<>>, call |-> 0]

newSession(ws) ==
    /\ workload \in ws
    /\ sType \in workload.roles
    /\ stopAll = 0
    /\ stopRead = 0
    /\ stopWrite = 0
    /\ stopAllSignalled = FALSE
    /\ cpc = "new"
    /\ filter = NilFilter
    /\ socketOpen = TRUE
    /\ refsCleared = FALSE
    /\ dispatched = <<>>
    /\ unregisterCalls = 0
    /\ steps = <<>>
    /\ rpc = "off"
    /\ rframe = NoFrame
    /\ inbox = <<>>
    /\ framesLeft = workload.frames
    /\ wpc = "off"
    /\ wevent = NoEvent
    /\ frames = <<>>
    /\ wlog = <<>>
    /\ dp = [c \in Callers |-> IdleCall]
    /\ nextSerial = 1
    /\ given = <<>>
    /\ overlap = {}
    /\ closePc = [c \in Closers |-> "idle"]
    /\ handlers = {}
    /\ responses = <<>>
    /\ panics = {}
    /\ dispatcherArgs = {}

(***************************************************************************)
(* PushSession.listen: starts the read loop and the write loop and enters  *)
(* the control loop.                                                       *)
(***************************************************************************)
Listen ==
    /\ cpc = "new"
    /\ cpc' = "loop"
    /\ rpc' = "recv"
    /\ wpc' = "select"
    /\ UNCHANGED <<upVars, libVars, handlerVars>>
    /\ UNCHANGED <<runVars, stopVars, pushVars, closePc>>
    /\ UNCHANGED <<filter, socketOpen, refsCleared, dispatched, unregisterCalls, steps>>
    /\ UNCHANGED <<rframe, inbox, framesLeft, wevent, frames, wlog>>

(***************************************************************************)
(* PushSession.readFilters / readRequests.                                 *)
(***************************************************************************)
InboundPool == IF sType = pushSessionTypeEvent THEN workload.filters ELSE workload.requests

\* websocket.JSON.Receive returns a frame.
ReaderReceive ==
    /\ rpc = "recv"
    /\ socketOpen
    /\ framesLeft > 0
    /\ \E f \in InboundPool : rframe' = f
    /\ framesLeft' = framesLeft - 1
    /\ rpc' = "enqueue"
    /\ UNCHANGED <<upVars, libVars, handlerVars>>
    /\ UNCHANGED <<runVars, stopVars, controlVars, writeVars, pushVars, closePc, inbox>>

\* websocket.JSON.Receive returns an error: the peer closed, the frame does not
\* decode, or the socket was closed by the control loop.
ReaderReceiveError ==
    /\ rpc = "recv"
    /\ rpc' = "stopAll"
    /\ UNCHANGED <<upVars, libVars, handlerVars>>
    /\ UNCHANGED <<runVars, stopVars, controlVars, writeVars, pushVars, closePc>>
    /\ UNCHANGED <<rframe, inbox, framesLeft>>

\* s.stopAll <- true; return
ReaderSignalStopAll ==
    /\ rpc = "stopAll"
    /\ CanSend(stopAll, StopAllCap)
    /\ stopAll' = stopAll + 1
    /\ stopAllSignalled' = TRUE
    /\ rpc' = "done"
    /\ UNCHANGED <<upVars, libVars, handlerVars>>
    /\ UNCHANGED <<runVars, controlVars, writeVars, pushVars, closePc>>
    /\ UNCHANGED <<stopRead, stopWrite, rframe, inbox, framesLeft>>

\* select: case s.filters <- filter / case s.requests <- request
ReaderEnqueue ==
    /\ rpc = "enqueue"
    /\ CanSend(Len(inbox), ReadChanCap)
    /\ inbox' = Append(inbox, rframe)
    /\ rframe' = NoFrame
    /\ rpc' = "recv"
    /\ UNCHANGED <<upVars, libVars, handlerVars>>
    /\ UNCHANGED <<runVars, stopVars, controlVars, writeVars, pushVars, closePc, framesLeft>>

\* select: case <-s.stopRead: return
ReaderStop ==
    /\ rpc = "enqueue"
    /\ stopRead > 0
    /\ stopRead' = stopRead - 1
    /\ rframe' = NoFrame
    /\ rpc' = "done"
    /\ UNCHANGED <<upVars, libVars, handlerVars>>
    /\ UNCHANGED <<runVars, controlVars, writeVars, pushVars, closePc>>
    /\ UNCHANGED <<stopAll, stopWrite, stopAllSignalled, inbox, framesLeft>>

(***************************************************************************)
(* PushSession.DirectPush.                                                 *)
(***************************************************************************)
\* the comparison taken for "not after"
Before_OrEqual(t, u) == t <= u

\* time.Time.Before
Before(t, u) == t < u

\* Caller c is inside DirectPush: its loop has events left.
InCall(c) == dp[c].pos <= Len(dp[c].evs)

\* reverse iteration over the arguments
NextEvent_Reversed(c) == dp[c].evs[Len(dp[c].evs) + 1 - dp[c].pos]

\* for _, event := range events: the event of the current iteration.
NextEvent(c) == dp[c].evs[dp[c].pos]

\* A caller enters DirectPush(events...).  Each event gets a serial number,
\* in the order of the arguments, and the number of its call.
DirectPushCall(c) ==
    /\ ~InCall(c)
    /\ \E es \in SeqsUpTo(workload.events, workload.pushes) :
         /\ nextSerial + Len(es) - 1 <= workload.pushes
         /\ LET tagged == [i \in 1 .. Len(es) |->
                             [n |-> nextSerial + i - 1, call |-> nextSerial,
                              Timestamp |-> es[i].Timestamp,
                              Identity |-> es[i].Identity,
                              Type |-> es[i].Type]]
            IN  /\ dp' = [dp EXCEPT ![c] = [evs |-> tagged, pos |-> 1,
                                            handed |-> <<>>, call |-> nextSerial]]
                /\ given' = given \o tagged
         /\ nextSerial' = nextSerial + Len(es)
    /\ overlap' = overlap \cup
                    {{nextSerial, dp[d].call} : d \in {x \in Callers : InCall(x)}}
    /\ UNCHANGED <<upVars, libVars, handlerVars>>
    /\ UNCHANGED <<runVars, stopVars, controlVars, readVars, writeVars, closePc>>

\* if event.Timestamp.Before(s.startTime) { continue }
DirectPushSkip(c) ==
    /\ InCall(c)
    /\ Before(NextEvent(c).Timestamp, StartTime)
    /\ dp' = [dp EXCEPT ![c].pos = @ + 1]
    /\ UNCHANGED <<upVars, libVars, handlerVars>>
    /\ UNCHANGED <<runVars, stopVars, controlVars, readVars, writeVars, closePc>>
    /\ UNCHANGED <<nextSerial, given, overlap>>

\* The caller is at s.events <- event.
Sending(c) ==
    /\ InCall(c)
    /\ ~Before(NextEvent(c).Timestamp, StartTime)

(***************************************************************************)
(* PushSession.write.                                                      *)
(***************************************************************************)
\* elemental.PushFilter.IsFilteredOut(identity, type)
IsFilteredOut(f, identity, type) == <<identity, type>> \in f.out

\* PushSession.currentFilter: nil, or a duplicate of the installed filter.
currentFilter == IF filter.nil THEN NilFilter ELSE filter

\* the test of the filter with its sense inverted
SkipsEvent_Inverted(f, event) == ~f.nil /\ ~IsFilteredOut(f, event.Identity, event.Type)

\* f != nil && f.IsFilteredOut(event.Identity, event.Type)
SkipsEvent(f, event) == ~f.nil /\ IsFilteredOut(f, event.Identity, event.Type)

\* select: case event := <-s.events.  The channel is unbuffered: the send of
\* caller c and the receive of the write loop are one step.
WriterReceive(c) ==
    /\ wpc = "select"
    /\ Sending(c)
    /\ wevent' = NextEvent(c)
    /\ dp' = [dp EXCEPT ![c].pos = @ + 1,
                        ![c].handed = Append(@, NextEvent(c))]
    /\ wpc' = "handle"
    /\ UNCHANGED <<upVars, libVars, handlerVars>>
    /\ UNCHANGED <<runVars, stopVars, controlVars, readVars, closePc>>
    /\ UNCHANGED <<frames, wlog, nextSerial, given, overlap>>

\* The filter is evaluated and filters the event out: break.
WriterSkip ==
    /\ wpc = "handle"
    /\ SkipsEvent(currentFilter, wevent)
    /\ wlog' = Append(wlog, [event |-> wevent, installed |-> filter, out |-> "filtered"])
    /\ wevent' = NoEvent
    /\ wpc' = "select"
    /\ UNCHANGED <<upVars, libVars, handlerVars>>
    /\ UNCHANGED <<runVars, stopVars, controlVars, readVars, pushVars, closePc, frames>>

\* The filter is evaluated; websocket.JSON.Send writes the event.
WriterSend ==
    /\ wpc = "handle"
    /\ ~SkipsEvent(currentFilter, wevent)
    /\ socketOpen
    /\ frames' = Append(frames, wevent)
    /\ wlog' = Append(wlog, [event |-> wevent, installed |-> filter, out |-> "sent"])
    /\ wevent' = NoEvent
    /\ wpc' = "select"
    /\ UNCHANGED <<upVars, libVars, handlerVars>>
    /\ UNCHANGED <<runVars, stopVars, controlVars, readVars, pushVars, closePc>>

\* a send error after which the write loop goes on with the next event
WriterSendError_Retries ==
    /\ wpc = "handle"
    /\ ~SkipsEvent(currentFilter, wevent)
    /\ wlog' = Append(wlog, [event |-> wevent, installed |-> filter, out |-> "failed"])
    /\ wevent' = NoEvent
    /\ wpc' = "select"
    /\ UNCHANGED <<upVars, libVars, handlerVars>>
    /\ UNCHANGED <<runVars, stopVars, controlVars, readVars, pushVars, closePc, frames>>

\* The filter is evaluated; websocket.JSON.Send returns an error (the peer is
\* gone, or the socket was closed by the control loop).
WriterSendError ==
    /\ wpc = "handle"
    /\ ~SkipsEvent(currentFilter, wevent)
    /\ wlog' = Append(wlog, [event |-> wevent, installed |-> filter, out |-> "failed"])
    /\ wevent' = NoEvent
    /\ wpc' = "stopAll"
    /\ UNCHANGED <<upVars, libVars, handlerVars>>
    /\ UNCHANGED <<runVars, stopVars, controlVars, readVars, pushVars, closePc, frames>>

\* s.stopAll <- true; return
WriterSignalStopAll ==
    /\ wpc = "stopAll"
    /\ CanSend(stopAll, StopAllCap)
    /\ stopAll' = stopAll + 1
    /\ stopAllSignalled' = TRUE
    /\ wpc' = "done"
    /\ UNCHANGED <<upVars, libVars, handlerVars>>
    /\ UNCHANGED <<runVars, controlVars, readVars, pushVars, closePc>>
    /\ UNCHANGED <<stopRead, stopWrite, wevent, frames, wlog>>

\* select: case <-s.stopWrite: return
WriterStop ==
    /\ wpc = "select"
    /\ stopWrite > 0
    /\ stopWrite' = stopWrite - 1
    /\ wpc' = "done"
    /\ UNCHANGED <<upVars, libVars, handlerVars>>
    /\ UNCHANGED <<runVars, controlVars, readVars, pushVars, closePc>>
    /\ UNCHANGED <<stopAll, stopRead, stopAllSignalled, wevent, frames, wlog>>

(***************************************************************************)
(* PushSession.close.                                                      *)
(***************************************************************************)
CloseCall(c) ==
    /\ closePc[c] = "idle"
    /\ closePc' = [closePc EXCEPT ![c] = "sending"]
    /\ UNCHANGED <<upVars, libVars, handlerVars>>
    /\ UNCHANGED <<runVars, stopVars, controlVars, readVars, writeVars, pushVars>>

\* s.stopAll <- true
CloseSignalStopAll(c) ==
    /\ closePc[c] = "sending"
    /\ CanSend(stopAll, StopAllCap)
    /\ stopAll' = stopAll + 1
    /\ stopAllSignalled' = TRUE
    /\ closePc' = [closePc EXCEPT ![c] = "returned"]
    /\ UNCHANGED <<upVars, libVars, handlerVars>>
    /\ UNCHANGED <<runVars, controlVars, readVars, writeVars, pushVars>>
    /\ UNCHANGED <<stopRead, stopWrite>>

(***************************************************************************)
(* PushSession.listenToPushEvents / listenToAPIRequest: the control loop   *)
(* and its deferred function.                                              *)
(***************************************************************************)
\* case filter := <-s.filters: s.setCurrentFilter(filter)
ControlFilter ==
    /\ cpc = "loop"
    /\ sType = pushSessionTypeEvent
    /\ inbox # <<>>
    /\ filter' = Head(inbox)
    /\ inbox' = Tail(inbox)
    /\ UNCHANGED <<upVars, libVars, handlerVars>>
    /\ UNCHANGED <<runVars, stopVars, writeVars, pushVars, closePc>>
    /\ UNCHANGED <<cpc, socketOpen, refsCleared, dispatched, unregisterCalls, steps>>
    /\ UNCHANGED <<rpc, rframe, framesLeft>>

\* a backport that does not look at the token
Backport_Always(parameters, request) ==
    [request EXCEPT !.Username = "Bearer", !.Password = Get(parameters)]
\* We backport the token of the session into the request.
Backport(parameters, request) ==
    IF Get(parameters) # ""
    THEN [request EXCEPT !.Username = "Bearer", !.Password = Get(parameters)]
    ELSE request

\* a switch with a default case that starts handleRetrieve
HandlerOf_Default(operation) ==
    CASE operation = "retrieve-many" -> "handleRetrieveMany"
      [] operation = "retrieve" -> "handleRetrieve"
      [] operation = "create" -> "handleCreate"
      [] operation = "update" -> "handleUpdate"
      [] operation = "delete" -> "handleDelete"
      [] operation = "info" -> "handleInfo"
      [] operation = "patch" -> "handlePatch"
      [] OTHER -> "handleRetrieve"

\* switch request.Operation: the handler of each case; the switch has no
\* default case, and "" stands for no handler.
HandlerOf(operation) ==
    CASE operation = "retrieve-many" -> "handleRetrieveMany"
      [] operation = "retrieve" -> "handleRetrieve"
      [] operation = "create" -> "handleCreate"
      [] operation = "update" -> "handleUpdate"
      [] operation = "delete" -> "handleDelete"
      [] operation = "info" -> "handleInfo"
      [] operation = "patch" -> "handlePatch"
      [] OTHER -> ""

\* (observation) The requests the control loop has taken from s.requests.
Taken ==
    workload.frames - framesLeft - Len(inbox) - (IF rpc = "enqueue" THEN 1 ELSE 0)

\* case request := <-s.requests: a handler is started for a known operation.
ControlRequest ==
    /\ cpc = "loop"
    /\ sType = pushSessionTypeAPI
    /\ inbox # <<>>
    /\ dispatched' = IF HandlerOf(Head(inbox).Operation) # ""
                     THEN Append(dispatched, Head(inbox).Operation)
                     ELSE dispatched
    /\ handlers' = IF HandlerOf(Head(inbox).Operation) # ""
                    THEN handlers \cup {[n |-> Len(dispatched) + 1,
                                         nth |-> Taken + 1,
                                         handler |-> HandlerOf(Head(inbox).Operation),
                                         Operation |-> Head(inbox).Operation,
                                         afterPanic |-> panics # {},
                                         request |-> Backport(workload.parameters,
                                                              Head(inbox)),
                                         frame |-> Head(inbox)]}
                    ELSE handlers
    /\ inbox' = Tail(inbox)
    /\ UNCHANGED <<upVars, libVars, responses, panics, dispatcherArgs>>
    /\ UNCHANGED <<runVars, stopVars, writeVars, pushVars, closePc>>
    /\ UNCHANGED <<cpc, filter, socketOpen, refsCleared, unregisterCalls, steps>>
    /\ UNCHANGED <<rpc, rframe, framesLeft>>

(***************************************************************************)
(* handleRetrieveMany ... handlePatch: one goroutine for one request.  The *)
(* seven handlers differ in the dispatcher they call only.                 *)
(***************************************************************************)
StatusInternalServerError == 500

\* What a dispatcher can do: return a context, return an error, or panic.
DispatchOutcomes == {[result |-> "context", code |-> 200],
                     [result |-> "error", code |-> 403],
                     [result |-> "error", code |-> StatusInternalServerError],
                     [result |-> "panic", code |-> 0]}

\* What the body of a handler writes after its dispatcher returned.
HandlerWrites(h, out) ==
    IF out.result = "panic" THEN << >>
    ELSE <<[n |-> h.n, kind |-> IF out.result = "error" THEN "error" ELSE "response",
            code |-> out.code, afterPanic |-> h.afterPanic]>>

\* handleEventualPanic, deferred: recover() and, after a panic, one error 500.
handleEventualPanic_Silent(h, recovered) == << >>
handleEventualPanic(h, recovered) ==
    IF recovered
    THEN <<[n |-> h.n, kind |-> "error", code |-> StatusInternalServerError,
            afterPanic |-> h.afterPanic]>>
    ELSE << >>

\* s.processorFinder and s.pushEventsFunc as a handler reads them, with no
\* synchronisation with the control loop that assigns nil to them: once the
\* assignment has run the read gives nil or the reference that was there.
ReadRef(cleared) == IF cleared THEN {"installed", "nil"} ELSE {"installed"}

HandlerRun ==
    /\ \E h \in handlers, out \in DispatchOutcomes :
         /\ handlers' = handlers \ {h}
         /\ \E pf \in ReadRef(refsCleared), pe \in ReadRef(refsCleared) :
              dispatcherArgs' = dispatcherArgs \cup
                                  {[processorFinder |-> pf, pushEventsFunc |-> pe]}
         /\ responses' = responses \o HandlerWrites(h, out)
                                   \o handleEventualPanic(h, out.result = "panic")
         /\ panics' = IF out.result = "panic" THEN panics \cup {h.n} ELSE panics
    /\ UNCHANGED <<upVars, libVars>>
    /\ UNCHANGED <<runVars, stopVars, controlVars, readVars, writeVars, pushVars, closePc>>

\* case <-s.stopAll: break, which leaves the select and not the loop
ControlStopAll_KeepsLooping ==
    /\ cpc = "loop"
    /\ stopAll > 0
    /\ stopAll' = stopAll - 1
    /\ UNCHANGED <<upVars, libVars, handlerVars>>
    /\ UNCHANGED <<runVars, controlVars, readVars, writeVars, pushVars, closePc>>
    /\ UNCHANGED <<stopRead, stopWrite, stopAllSignalled>>

\* case <-s.stopAll: return
ControlStopAll ==
    /\ cpc = "loop"
    /\ stopAll > 0
    /\ stopAll' = stopAll - 1
    /\ cpc' = "stopRead"
    /\ UNCHANGED <<upVars, libVars, handlerVars>>
    /\ UNCHANGED <<runVars, readVars, writeVars, pushVars, closePc>>
    /\ UNCHANGED <<stopRead, stopWrite, stopAllSignalled>>
    /\ UNCHANGED <<filter, socketOpen, refsCleared, dispatched, unregisterCalls, steps>>

\* the socket closed before the session is unregistered
AfterStep_CloseFirst(step) ==
    CASE step = "stopRead" -> "stopWrite"
      [] step = "stopWrite" -> "closeSocket"
      [] step = "closeSocket" -> "unregister"
      [] step = "unregister" -> "clearRefs"
      [] step = "clearRefs" -> "done"

\* the deferred function without its send on stopWrite
AfterStep_SkipsStopWrite(step) ==
    CASE step = "stopRead" -> "unregister"
      [] step = "stopWrite" -> "unregister"
      [] step = "unregister" -> "closeSocket"
      [] step = "closeSocket" -> "clearRefs"
      [] step = "clearRefs" -> "done"

\* The order of the deferred function's statements: the one that follows each.
AfterStep(step) ==
    CASE step = "stopRead" -> "stopWrite"
      [] step = "stopWrite" -> "unregister"
      [] step = "unregister" -> "closeSocket"
      [] step = "closeSocket" -> "clearRefs"
      [] step = "clearRefs" -> "done"

\* s.stopRead <- true
ControlSignalStopRead ==
    /\ cpc = "stopRead"
    /\ CanSend(stopRead, StopReadCap)
    /\ stopRead' = stopRead + 1
    /\ steps' = Append(steps, "stopRead")
    /\ cpc' = AfterStep("stopRead")
    /\ UNCHANGED <<upVars, libVars, handlerVars>>
    /\ UNCHANGED <<runVars, readVars, writeVars, pushVars, closePc>>
    /\ UNCHANGED <<stopAll, stopWrite, stopAllSignalled>>
    /\ UNCHANGED <<filter, socketOpen, refsCleared, dispatched, unregisterCalls>>

\* s.stopWrite <- true
ControlSignalStopWrite ==
    /\ cpc = "stopWrite"
    /\ CanSend(stopWrite, StopWriteCap)
    /\ stopWrite' = stopWrite + 1
    /\ steps' = Append(steps, "stopWrite")
    /\ cpc' = AfterStep("stopWrite")
    /\ UNCHANGED <<upVars, libVars, handlerVars>>
    /\ UNCHANGED <<runVars, readVars, writeVars, pushVars, closePc>>
    /\ UNCHANGED <<stopAll, stopRead, stopAllSignalled>>
    /\ UNCHANGED <<filter, socketOpen, refsCleared, dispatched, unregisterCalls>>

\* s.unregisterFunc(s)
ControlUnregister ==
    /\ cpc = "unregister"
    /\ unregisterCalls' = unregisterCalls + 1
    /\ steps' = Append(steps, "unregister")
    /\ cpc' = AfterStep("unregister")
    /\ UNCHANGED <<upVars, libVars, handlerVars>>
    /\ UNCHANGED <<runVars, stopVars, readVars, writeVars, pushVars, closePc>>
    /\ UNCHANGED <<filter, socketOpen, refsCleared, dispatched>>

\* s.socket.Close()
ControlCloseSocket ==
    /\ cpc = "closeSocket"
    /\ socketOpen' = FALSE
    /\ steps' = Append(steps, "closeSocket")
    /\ cpc' = AfterStep("closeSocket")
    /\ UNCHANGED <<upVars, libVars, handlerVars>>
    /\ UNCHANGED <<runVars, stopVars, readVars, writeVars, pushVars, closePc>>
    /\ UNCHANGED <<filter, refsCleared, dispatched, unregisterCalls>>

\* s.processorFinder = nil; s.pushEventsFunc = nil; s.unregisterFunc = nil
ControlClearRefs ==
    /\ cpc = "clearRefs"
    /\ refsCleared' = TRUE
    /\ steps' = Append(steps, "clearRefs")
    /\ cpc' = AfterStep("clearRefs")
    /\ UNCHANGED <<upVars, libVars, handlerVars>>
    /\ UNCHANGED <<runVars, stopVars, readVars, writeVars, pushVars, closePc>>
    /\ UNCHANGED <<filter, socketOpen, dispatched, unregisterCalls>>

\* The control loop leaving its loop and running the deferred function.
ControlShutdown ==
    \/ ControlStopAll
    \/ ControlSignalStopRead
    \/ ControlSignalStopWrite
    \/ ControlUnregister
    \/ ControlCloseSocket
    \/ ControlClearRefs

(***************************************************************************)
(* The push Upstreamer (gateway/upstreamer/push/upstreamer.go).            *)
(*                                                                         *)
(* An address "h1:80" is the tuple <<"h1", "80">>, the empty string is     *)
(* <<>>, and an address without a port is a tuple of length one.  A float  *)
(* is a fraction [num, den] with den > 0.                                  *)
(***************************************************************************)
serviceStatusHello == "hello"
serviceStatusGoodbye == "goodbye"

ServiceNames == {"A", "B", "C"}
\* an address is <<host, port>>; <<host>> is an address without a port
Addresses == {<<"h1", "80">>, <<"h2", "80">>, <<"h3", "80">>,
              <<"h1", "81">>, <<"h3", "81">>, <<"h1">>}
RouteIdentities == {"r1", "r2"}
EndpointKeys == ServiceNames \X Addresses
NoAddress == << >>
NoOverride == << >>

Rat(n, d) == [num |-> n, den |-> d]
Zero == Rat(0, 1)
IsZero(x) == x.num = 0
Greater(x, y) == x.num * y.den > y.num * x.den
Plus(x, y) == Rat(x.num * y.den + y.num * x.den, x.den * y.den)
\* int(x) of a float that is not negative
Truncate(x) == x.num \div x.den
\* float64(n) <= x
IntLeq(n, x) == n * x.den <= x.num

\* What the services of the pool announce in their pings.
PoolRoutes == [n \in ServiceNames |->
                 IF n = "A" THEN {"r1", "r2"} ELSE IF n = "B" THEN {"r1"} ELSE {"r2"}]
PoolPrivateRoutes == [n \in ServiceNames |-> IF n = "A" THEN {"r2"} ELSE {}]

Pings(names, addrs, statuses, loads) ==
    {[Name |-> n, Endpoint |-> a, Status |-> st, Routes |-> PoolRoutes[n],
      PrivateRoutes |-> PoolPrivateRoutes[n], Load |-> l] :
        n \in names, a \in addrs, st \in statuses, l \in loads}

NoPing == [Name |-> "", Endpoint |-> NoAddress, Status |-> "", Routes |-> {},
           PrivateRoutes |-> {}, Load |-> Zero]

BothStatuses == {serviceStatusHello, serviceStatusGoodbye}
HalfLoad == {Rat(1, 2)}
FifthLoad == {Rat(1, 5)}
FullLoad == {Rat(1, 1)}
NoCalls == [collectors |-> {}, collects |-> 0, addresses |-> {}, durations |-> {},
            upstreamers |-> {}, upstreams |-> 0, identities |-> {}]

\* One configuration of the Upstreamer and what one run feeds it with.
Config(required, expose, pings, pingCount, time, faults, calls) ==
    [requiredServices |-> required,
     exposePrivateAPIs |-> expose,
     eventsAPIs |-> {},
     overrideEndpointAddress |-> NoOverride,
     serviceTimeout |-> 1,
     feedbackLoopSamples |-> 2,
     pings |-> pings,
     pingCount |-> pingCount,
     time |-> time,
     faults |-> faults,
     calls |-> calls]

RequiredLists == {<< >>, <<"A">>, <<"A", "B">>, <<"A", "A">>}

UpWorkloads ==
    \* the registry under hellos, goodbyes and ticks
    {Config(<< >>, FALSE,
            Pings({"A"}, {<<"h1", "80">>, <<"h2", "80">>}, BothStatuses, HalfLoad)
              \cup Pings({"B"}, {<<"h1", "80">>}, BothStatuses, HalfLoad),
            MaxPings, MaxTime, FALSE, NoCalls)}
    \cup
    \* Upstream calls next to the tick that removes the one endpoint of a
    \* route
    {Config(<< >>, FALSE,
            Pings({"B"}, {<<"h1", "80">>}, {serviceStatusHello}, HalfLoad),
            1, MaxTime, FALSE,
            [NoCalls EXCEPT !.upstreamers = {"u1"}, !.upstreams = MaxUpstreams,
                            !.identities = {"r1"}])}
    \cup
    \* a service with a private route, with and without exposePrivateAPIs,
    \* and Upstream calls for that route
    {Config(<< >>, expose,
            Pings({"A"}, {<<"h1", "80">>}, {serviceStatusHello}, HalfLoad),
            1, 0, FALSE,
            [NoCalls EXCEPT !.upstreamers = {"u1"}, !.upstreams = MaxUpstreams,
                            !.identities = {"r2"}]) : expose \in BOOLEAN}
    \cup
    \* overrideEndpointAddress, and pings whose endpoints have a port, another
    \* port and no port
    {[Config(<< >>, FALSE,
             Pings({"B"}, {<<"h1", "80">>, <<"h1", "81">>, <<"h1">>}, BothStatuses, HalfLoad),
             2, 0, FALSE, NoCalls) EXCEPT !.overrideEndpointAddress = <<"h3">>]}
    \cup
    \* the required services, pubsub errors and the end of the context
    {Config(req, FALSE,
            Pings(ServiceNames, {<<"h1", "80">>}, BothStatuses, HalfLoad),
            MaxPings, 0, TRUE, NoCalls) : req \in RequiredLists}
    \cup
    \* Upstream and Collect calls next to the listener
    {Config(<< >>, FALSE,
            Pings({"B"}, {<<"h1", "80">>, <<"h2", "80">>, <<"h3", "80">>},
                  {serviceStatusHello}, HalfLoad)
              \cup Pings({"B"}, {<<"h1", "80">>}, {serviceStatusGoodbye}, HalfLoad),
            MaxPings, 0, FALSE,
            [collectors |-> {"c1"}, collects |-> MaxCollects,
             addresses |-> {<<"h1", "80">>}, durations |-> {0, 4000},
             upstreamers |-> {"u1"}, upstreams |-> MaxUpstreams, identities |-> {"r1"}])}
    \cup
    \* two endpoints of one route, the response times collected for them and
    \* the Upstream calls they weigh on: no endpoint is removed
    {Config(<< >>, FALSE,
            Pings({"B"}, {<<"h1", "80">>}, {serviceStatusHello}, FifthLoad)
              \cup Pings({"B"}, {<<"h2", "80">>}, {serviceStatusHello}, HalfLoad),
            2, 0, FALSE,
            [collectors |-> {"c1"}, collects |-> MaxCollects + 2,
             addresses |-> {<<"h1", "80">>, <<"h2", "80">>}, durations |-> {1000, 2000},
             upstreamers |-> {"u1"}, upstreams |-> MaxUpstreams, identities |-> {"r1"}])}
    \cup
    \* two endpoints whose loads add up to more than 1, and Upstream calls
    \* that have no response time to go by
    {Config(<< >>, FALSE,
            Pings({"B"}, {<<"h1", "80">>}, {serviceStatusHello}, FullLoad)
              \cup Pings({"B"}, {<<"h2", "80">>}, {serviceStatusHello}, HalfLoad),
            2, 0, FALSE,
            [NoCalls EXCEPT !.upstreamers = {"u1"}, !.upstreams = MaxUpstreams,
                            !.identities = {"r1"}])}
    \cup
    \* Collect calls alone, with response times of zero, below and above a
    \* microsecond
    {Config(<< >>, FALSE, {}, 0, 0, FALSE,
            [NoCalls EXCEPT !.collectors = {"c1"}, !.collects = MaxCollects + 2,
                            !.addresses = {<<"h1", "80">>},
                            !.durations = {0, 500, 1000, 2000}])}

    \cup
    \* two callers of Collect for one address that has no entry yet
    {Config(<< >>, FALSE, {}, 0, 0, FALSE,
            [NoCalls EXCEPT !.collectors = {"c1", "c2"}, !.collects = MaxCollects + 1,
                            !.addresses = {<<"h1", "80">>},
                            !.durations = {1000, 2000}])}

Collectors == {"c1", "c2"}
Upstreamers == {"u1"}

RECURSIVE Orderings(_)
Orderings(S) == IF S = {} THEN {<< >>}
                ELSE UNION {{<<x>> \o o : o \in Orderings(S \ {x})} : x \in S}

RECURSIVE Sum(_)
Sum(s) == IF s = << >> THEN 0 ELSE Head(s) + Sum(Tail(s))

Range(s) == {s[i] : i \in DOMAIN s}

(***************************************************************************)
(* MovingAverage: a ring of at most `size` samples.                        *)
(***************************************************************************)
\* time.Duration counts nanoseconds; Microseconds() is the whole
\* microseconds of it
Microseconds(d) == d \div 1000

NoAverage == [present |-> FALSE, samples |-> << >>, next |-> 0, size |-> 0]
NewMovingAverage(n) == [present |-> TRUE, samples |-> << >>, next |-> 1, size |-> n]
Add_OverwritesLast(ma, x) ==
    [ma EXCEPT !.samples = IF Len(@) < ma.size THEN Append(@, x)
                           ELSE [@ EXCEPT ![Len(@)] = x]]
Add(ma, x) ==
    [ma EXCEPT !.samples = IF Len(@) < ma.size THEN Append(@, x)
                           ELSE [@ EXCEPT ![ma.next] = x],
               !.next = (ma.next % ma.size) + 1]
Average(ma) == IF ma.samples = << >> THEN Zero ELSE Rat(Sum(ma.samples), Len(ma.samples))

(***************************************************************************)
(* The registry of the listener: services, with the endpointInfo objects   *)
(* of their endpoints kept in `heap`.                                      *)
(***************************************************************************)
NoService == [present |-> FALSE, routes |-> {}, privateRoutes |-> {}, endpoints |-> {}]
NoInfo == [lastLoad |-> Zero, lastSeen |-> 0]

\* A hello: the service is created with the routes of the ping when it is
\* not known; an endpoint that is known is refreshed and nothing changed, an
\* endpoint that is not is registered.
handleAddServicePing(svcs, hp, sp, t) ==
    LET srv == IF svcs[sp.Name].present THEN svcs[sp.Name]
               ELSE [present |-> TRUE, routes |-> sp.Routes,
                     privateRoutes |-> sp.PrivateRoutes, endpoints |-> {}]
        info == [lastLoad |-> sp.Load, lastSeen |-> t]
        poked == [hp EXCEPT ![<<sp.Name, sp.Endpoint>>] = info]
    IN  IF sp.Endpoint \in srv.endpoints
        THEN [services |-> [svcs EXCEPT ![sp.Name] = srv], heap |-> poked, changed |-> FALSE]
        ELSE [services |-> [svcs EXCEPT ![sp.Name] =
                               [srv EXCEPT !.endpoints = @ \cup {sp.Endpoint}]],
              heap |-> poked, changed |-> TRUE]

\* A removal: nothing changes when the service or the endpoint is not
\* known; the service goes with its last endpoint.
handleRemoveServicePing(svcs, sp) ==
    IF ~svcs[sp.Name].present \/ sp.Endpoint \notin svcs[sp.Name].endpoints
    THEN [services |-> svcs, changed |-> FALSE]
    ELSE LET left == svcs[sp.Name].endpoints \ {sp.Endpoint}
         IN  [services |-> [svcs EXCEPT ![sp.Name] =
                               IF left = {} THEN NoService
                               ELSE [@ EXCEPT !.endpoints = left]],
              changed |-> TRUE]

\* srv.outdatedEndpoints(since): the endpoints last seen before `since`.
outdatedEndpoints(svcs, hp, name, since) ==
    {a \in svcs[name].endpoints : hp[<<name, a>>].lastSeen < since}

\* The endpoints resyncRoutes lists under one identity.
RouteEndpoints(svcs, r, exposePrivate, events) ==
    {k \in EndpointKeys :
        /\ svcs[k[1]].present
        /\ k[2] \in svcs[k[1]].endpoints
        /\ r \in svcs[k[1]].routes
        /\ (r \notin svcs[k[1]].privateRoutes \/ exposePrivate \/ r \in events)}

\* resyncRoutes: the tables it can return; the order within one identity is
\* the order in which Go walks its maps.
resyncRoutes(svcs, exposePrivate, events) ==
    LET orders == [r \in RouteIdentities |->
                     Orderings(RouteEndpoints(svcs, r, exposePrivate, events))]
    IN  {t \in [RouteIdentities -> UNION {orders[r] : r \in RouteIdentities}] :
            \A r \in RouteIdentities : t[r] \in orders[r]}

\* The second argument of every resyncRoutes call of the listener
includePrivate_Always(cfg) == TRUE
includePrivate(cfg) == cfg.exposePrivateAPIs

\* The endpointInfo objects no service holds any more are garbage.
Live(svcs, hp) ==
    [k \in EndpointKeys |->
        IF svcs[k[1]].present /\ k[2] \in svcs[k[1]].endpoints THEN hp[k] ELSE NoInfo]

\* pick(randomizer, l): two distinct indices below l.
pick(l) == {<<i, j>> \in (0 .. l - 1) \X (0 .. l - 1) : i # j}

\* net.SplitHostPort
SplitHostPort(e) == IF Len(e) = 2 THEN [ok |-> TRUE, port |-> e[2]]
                    ELSE [ok |-> FALSE, port |-> ""]

\* The endpoint of a ping once overrideEndpointAddress is applied.
OverrideEndpoint_Never(cfg, sp) == sp
OverrideEndpoint(cfg, sp) ==
    IF cfg.overrideEndpointAddress # NoOverride /\ SplitHostPort(sp.Endpoint).ok
    THEN [sp EXCEPT !.Endpoint = cfg.overrideEndpointAddress \o <<SplitHostPort(sp.Endpoint).port>>]
    ELSE sp

(***************************************************************************)
(* NewUpstreamer: nothing is known, nothing runs.                          *)
(***************************************************************************)
NothingSeen == [outdated |-> {}, fresh |-> {}]
IdleCollect == [pc |-> "idle", address |-> NoAddress, v |-> 0, detached |-> FALSE]
NoResult == [address |-> NoAddress, load |-> Zero]
IdleUpstream == [pc |-> "idle", identity |-> "", l |-> 0, n1 |-> 0, n2 |-> 0,
                 tbl |-> << >>, epi |-> << >>, addresses |-> << >>, loads |-> << >>,
                 result |-> NoResult, returned |-> FALSE, m |-> << >>, w |-> << >>]

\* A call that has returned: what it returned, with (observation) the
\* identity it was for, the table it counted, its candidates, the averages
\* it measured and the weights it used.
Returned(call, result, m, w) ==
    [IdleUpstream EXCEPT !.identity = call.identity, !.l = call.l, !.tbl = call.tbl,
                         !.addresses = call.addresses, !.loads = call.loads,
                         !.result = result, !.returned = TRUE, !.m = m, !.w = w]

NewUpstreamer(ws) ==
    /\ uload \in ws
    /\ now = 0
    /\ pingsLeft = uload.pingCount
    /\ lpc = "new"
    /\ lping = NoPing
    /\ services = [n \in ServiceNames |-> NoService]
    /\ heap = [k \in EndpointKeys |-> NoInfo]
    /\ requiredServices = [n \in ServiceNames |-> [ok |-> FALSE, r |-> FALSE]]
    /\ requiredReady = 0
    /\ requiredNotifSent = FALSE
    /\ ready = 0
    /\ apis = [r \in RouteIdentities |-> << >>]
    /\ rlock = {}
    /\ feedbackLoop = [a \in Addresses |-> NoAverage]
    /\ col = [p \in Collectors |-> IdleCollect]
    /\ collectsLeft = uload.calls.collects
    /\ up = [p \in Upstreamers |-> IdleUpstream]
    /\ upstreamsLeft = uload.calls.upstreams
    /\ tickSeen = NothingSeen
    /\ helloHandled = {}
    /\ removedHandled = {}
    /\ closedAt = -1
    /\ collected = [a \in Addresses |-> [sampled |-> 0, ignored |-> 0]]

requiredCount == Len(uload.requiredServices)

\* The publications the listener has received.
pubsReceived == uload.pingCount - pingsLeft

\* The process runs until a fatal pubsub error ends it.
Running == lpc # "exited"

\* c.lock.Lock() waits for the calls that hold the read lock.
CanLock_Unguarded(readers) == TRUE
CanLock(readers) == readers = {}

\* c.feedbackLoop.Delete(a): the calls that loaded the entry keep an object
\* the map has no more.
Detached(calls, a) ==
    [p \in DOMAIN calls |->
        IF calls[p].pc = "hit" /\ calls[p].address = a
        THEN [calls[p] EXCEPT !.detached = TRUE] ELSE calls[p]]

RECURSIVE DetachedAll(_, _)
DetachedAll(calls, as) ==
    IF as = {} THEN calls
    ELSE LET a == CHOOSE x \in as : TRUE
         IN  DetachedAll(Detached(calls, a), as \ {a})

Registered(svcs) ==
    {k \in EndpointKeys : svcs[k[1]].present /\ k[2] \in svcs[k[1]].endpoints}

(***************************************************************************)
(* listenService, before its loop: the required services are set up and    *)
(* ready is closed at once when there is none.                             *)
(***************************************************************************)
ListenStart ==
    /\ lpc = "new"
    /\ lpc' = "idle"
    /\ requiredServices' = [n \in ServiceNames |->
                              [ok |-> n \in Range(uload.requiredServices), r |-> FALSE]]
    /\ requiredReady' = 0
    /\ IF requiredCount = 0
       THEN /\ requiredNotifSent' = TRUE
            /\ ready' = ready + 1
            /\ closedAt' = pubsReceived
       ELSE UNCHANGED <<requiredNotifSent, ready, closedAt>>
    /\ UNCHANGED <<lping, services, heap>>
    /\ UNCHANGED <<tickSeen, helloHandled, removedHandled, collected>>
    /\ UNCHANGED <<cfgVars, envVars, sharedVars, callVars, sessVars, libVars>>

(***************************************************************************)
(* time.Now() moves on.                                                    *)
(***************************************************************************)
Advance ==
    /\ Running
    /\ now < uload.time
    /\ now' = now + 1
    /\ UNCHANGED <<pingsLeft, cfgVars, listenerVars, sharedVars, callVars, obsVars>>
    /\ UNCHANGED <<sessVars, libVars>>

(***************************************************************************)
(* case <-ticker.C, up to the resync.                                      *)
(***************************************************************************)
\* foundOutdated = foundOutdated || handleRemoveServicePing(...): Go does not
\* evaluate the right operand once foundOutdated is true.
ScanStep(acc, k) ==
    IF acc.foundOutdated THEN acc
    ELSE LET res == handleRemoveServicePing(acc.services, [Name |-> k[1], Endpoint |-> k[2]])
         IN  [services |-> res.services, foundOutdated |-> res.changed]

RECURSIVE Scan(_, _)
Scan(acc, order) ==
    IF order = << >> THEN acc ELSE Scan(ScanStep(acc, Head(order)), Tail(order))

\* The endpoints the two range loops find, in the order Go walks the maps.
Outdated(svcs, hp, since) ==
    {k \in Registered(svcs) : k[2] \in outdatedEndpoints(svcs, hp, k[1], since)}

ListenerTick ==
    /\ lpc = "idle"
    /\ LET since == now - uload.serviceTimeout
           found == Outdated(services, heap, since)
       IN  \E order \in Orderings(found) :
             LET scan == Scan([services |-> services, foundOutdated |-> FALSE], order)
                 gone == {k[2] : k \in found}
             IN  /\ services' = scan.services
                 /\ feedbackLoop' = [a \in Addresses |->
                                       IF a \in gone THEN NoAverage ELSE feedbackLoop[a]]
                 /\ col' = DetachedAll(col, gone)
                 /\ lpc' = IF scan.foundOutdated THEN "tickResync" ELSE "idle"
                 /\ tickSeen' = [outdated |-> found, fresh |-> Registered(services) \ found]
    /\ UNCHANGED <<lping, heap, requiredServices, requiredReady, requiredNotifSent, ready>>
    /\ UNCHANGED <<apis, rlock, collectsLeft, up, upstreamsLeft>>
    /\ UNCHANGED <<helloHandled, removedHandled, closedAt, collected>>
    /\ UNCHANGED <<cfgVars, envVars, sessVars, libVars>>

ListenerTickResync ==
    /\ lpc = "tickResync"
    /\ CanLock(rlock)
    /\ apis' \in resyncRoutes(services, includePrivate(uload), uload.eventsAPIs)
    /\ heap' = Live(services, heap)
    /\ lpc' = "idle"
    /\ removedHandled' = removedHandled \cup
           {k[2] : k \in {x \in tickSeen.outdated : x \notin Registered(services)}}
    /\ UNCHANGED <<lping, services, requiredServices, requiredReady, requiredNotifSent, ready>>
    /\ UNCHANGED <<rlock, feedbackLoop>>
    /\ UNCHANGED <<tickSeen, helloHandled, closedAt, collected>>
    /\ UNCHANGED <<cfgVars, envVars, callVars, sessVars, libVars>>

(***************************************************************************)
(* case pub := <-pubs                                                      *)
(***************************************************************************)
ListenerDecodeError ==
    /\ lpc = "idle"
    /\ pingsLeft > 0
    /\ pingsLeft' = pingsLeft - 1
    /\ tickSeen' = NothingSeen
    /\ UNCHANGED <<now, helloHandled, removedHandled, closedAt, collected>>
    /\ UNCHANGED <<cfgVars, listenerVars, sharedVars, callVars, sessVars, libVars>>

\* The listener tracks the required services until it has closed ready.
TracksRequired_Always(count, sent) == count > 0
TracksRequired(count, sent) == count > 0 /\ ~sent

\* The end of the hello case: the required services.
HelloDone(sp) ==
    LET tracks == TracksRequired(requiredCount, requiredNotifSent)
        first == tracks /\ requiredServices[sp.Name].ok /\ ~requiredServices[sp.Name].r
        count == IF first THEN requiredReady + 1 ELSE requiredReady
        closes == tracks /\ count = requiredCount
    IN  /\ requiredServices' = IF first THEN [requiredServices EXCEPT ![sp.Name].r = TRUE]
                               ELSE requiredServices
        /\ requiredReady' = count
        /\ requiredNotifSent' = (requiredNotifSent \/ closes)
        /\ ready' = IF closes THEN ready + 1 ELSE ready
        /\ closedAt' = IF closes THEN pubsReceived ELSE closedAt
        /\ helloHandled' = helloHandled \cup ({sp.Name} \cap Range(uload.requiredServices))
        /\ lpc' = "idle"
        /\ lping' = NoPing
        /\ UNCHANGED collected

\* if c.handleAddServicePing(...) { resync }
ResyncsOnHello_Always(changed) == TRUE
ResyncsOnHello(changed) == changed

ListenerHello ==
    /\ lpc = "idle"
    /\ pingsLeft > 0
    /\ pingsLeft' = pingsLeft - 1
    /\ tickSeen' = NothingSeen
    /\ \E pub \in uload.pings :
         LET sp == OverrideEndpoint(uload, pub)
             res == handleAddServicePing(services, heap, sp, now)
         IN  /\ sp.Status = serviceStatusHello
             /\ services' = res.services
             /\ heap' = res.heap
             /\ IF ResyncsOnHello(res.changed)
                THEN /\ lpc' = "helloResync"
                     /\ lping' = sp
                     /\ removedHandled' = removedHandled \ {sp.Endpoint}
                     /\ UNCHANGED <<requiredServices, requiredReady, requiredNotifSent,
                                    ready, closedAt, collected, helloHandled>>
                ELSE /\ HelloDone(sp)
                     /\ UNCHANGED removedHandled
    /\ UNCHANGED now
    /\ UNCHANGED <<cfgVars, sharedVars, callVars, sessVars, libVars>>

ListenerHelloResync ==
    /\ lpc = "helloResync"
    /\ CanLock(rlock)
    /\ apis' \in resyncRoutes(services, includePrivate(uload), uload.eventsAPIs)
    /\ heap' = Live(services, heap)
    /\ HelloDone(lping)
    /\ UNCHANGED <<services, rlock, feedbackLoop>>
    /\ UNCHANGED <<tickSeen, removedHandled>>
    /\ UNCHANGED <<cfgVars, envVars, callVars, sessVars, libVars>>

\* if c.handleRemoveServicePing(...) { resync; Delete }
ResyncsOnGoodbye_Always(changed) == TRUE
ResyncsOnGoodbye(changed) == changed

ListenerGoodbye ==
    /\ lpc = "idle"
    /\ pingsLeft > 0
    /\ pingsLeft' = pingsLeft - 1
    /\ tickSeen' = NothingSeen
    /\ \E pub \in uload.pings :
         LET sp == OverrideEndpoint(uload, pub)
             res == handleRemoveServicePing(services, sp)
         IN  /\ sp.Status = serviceStatusGoodbye
             /\ services' = res.services
             /\ IF ResyncsOnGoodbye(res.changed)
                THEN /\ lpc' = "goodbyeResync"
                     /\ lping' = sp
                ELSE UNCHANGED <<lpc, lping>>
    /\ UNCHANGED <<heap, requiredServices, requiredReady, requiredNotifSent, ready>>
    /\ UNCHANGED <<now, helloHandled, removedHandled, closedAt, collected>>
    /\ UNCHANGED <<cfgVars, sharedVars, callVars, sessVars, libVars>>

ListenerGoodbyeResync ==
    /\ lpc = "goodbyeResync"
    /\ CanLock(rlock)
    /\ apis' \in resyncRoutes(services, includePrivate(uload), uload.eventsAPIs)
    /\ heap' = Live(services, heap)
    /\ lpc' = "goodbyeDelete"
    /\ UNCHANGED <<lping, services, requiredServices, requiredReady, requiredNotifSent, ready>>
    /\ UNCHANGED <<rlock, feedbackLoop>>
    /\ UNCHANGED <<cfgVars, envVars, callVars, obsVars, sessVars, libVars>>

ListenerGoodbyeDelete ==
    /\ lpc = "goodbyeDelete"
    /\ feedbackLoop' = [feedbackLoop EXCEPT ![lping.Endpoint] = NoAverage]
    /\ col' = Detached(col, lping.Endpoint)
    /\ lpc' = "idle"
    /\ lping' = NoPing
    /\ removedHandled' = removedHandled \cup {lping.Endpoint}
    /\ UNCHANGED <<services, heap, requiredServices, requiredReady, requiredNotifSent, ready>>
    /\ UNCHANGED <<apis, rlock, collectsLeft, up, upstreamsLeft>>
    /\ UNCHANGED <<tickSeen, helloHandled, closedAt, collected>>
    /\ UNCHANGED <<cfgVars, envVars, sessVars, libVars>>

(***************************************************************************)
(* case err = <-errs and case <-ctx.Done()                                 *)
(***************************************************************************)
ListenerPubsubError ==
    /\ lpc = "idle"
    /\ uload.faults
    /\ \E fatal \in BOOLEAN : lpc' = IF fatal THEN "exited" ELSE lpc
    /\ UNCHANGED <<lping, services, heap, requiredServices, requiredReady,
                   requiredNotifSent, ready>>
    /\ UNCHANGED <<cfgVars, envVars, sharedVars, callVars, obsVars, sessVars, libVars>>

ListenerCancel ==
    /\ lpc = "idle"
    /\ uload.faults
    /\ lpc' = "stopped"
    /\ UNCHANGED <<lping, services, heap, requiredServices, requiredReady,
                   requiredNotifSent, ready>>
    /\ UNCHANGED <<cfgVars, envVars, sharedVars, callVars, obsVars, sessVars, libVars>>

(***************************************************************************)
(* Collect                                                                 *)
(***************************************************************************)
CollectCall(p) ==
    /\ Running
    /\ col[p].pc = "idle"
    /\ collectsLeft > 0
    /\ collectsLeft' = collectsLeft - 1
    /\ \E a \in uload.calls.addresses, responseTime \in uload.calls.durations :
         LET v == Microseconds(responseTime)
         IN  /\ col' = [col EXCEPT ![p] =
                        IF v = 0 THEN IdleCollect
                        ELSE [pc |-> IF feedbackLoop[a].present THEN "hit" ELSE "miss",
                              address |-> a, v |-> v, detached |-> FALSE]]
             /\ collected' = IF v = 0 /\ responseTime # 0
                             THEN [collected EXCEPT ![a].ignored = @ + 1]
                             ELSE collected
    /\ UNCHANGED <<up, upstreamsLeft>>
    /\ UNCHANGED <<tickSeen, helloHandled, removedHandled, closedAt>>
    /\ UNCHANGED <<cfgVars, envVars, listenerVars, sharedVars, sessVars, libVars>>

\* values.(*MovingAverage).Add(v), on the object that was loaded
CollectAdd(p) ==
    /\ Running
    /\ col[p].pc = "hit"
    /\ feedbackLoop' = IF col[p].detached THEN feedbackLoop
                       ELSE [feedbackLoop EXCEPT ![col[p].address] = Add(@, col[p].v)]
    /\ col' = [col EXCEPT ![p] = IdleCollect]
    /\ collected' = [collected EXCEPT ![col[p].address].sampled = @ + 1]
    /\ UNCHANGED <<apis, rlock, collectsLeft, up, upstreamsLeft>>
    /\ UNCHANGED <<tickSeen, helloHandled, removedHandled, closedAt>>
    /\ UNCHANGED <<cfgVars, envVars, listenerVars, sessVars, libVars>>

\* The entry Collect stores for an address that has none: the sample v is
\* not added to it.
StoredEntry_Sampled(n, v) == Add(NewMovingAverage(n), v)
StoredEntry(n, v) == NewMovingAverage(n)

\* c.feedbackLoop.Store(address, NewMovingAverage(...))
CollectStore(p) ==
    /\ Running
    /\ col[p].pc = "miss"
    /\ feedbackLoop' = [feedbackLoop EXCEPT ![col[p].address] =
                           StoredEntry(uload.feedbackLoopSamples, col[p].v)]
    /\ col' = [Detached(col, col[p].address) EXCEPT ![p] = IdleCollect]
    /\ collected' = [collected EXCEPT ![col[p].address].sampled = @ + 1]
    /\ UNCHANGED <<apis, rlock, collectsLeft, up, upstreamsLeft>>
    /\ UNCHANGED <<tickSeen, helloHandled, removedHandled, closedAt>>
    /\ UNCHANGED <<cfgVars, envVars, listenerVars, sessVars, libVars>>

(***************************************************************************)
(* Upstream                                                                *)
(***************************************************************************)
measure(a) == IF feedbackLoop[a].present THEN Average(feedbackLoop[a]) ELSE Zero

\* c.lock.RLock() and l := len(c.apis[identity]), with the indices the
\* switch sets.
UpstreamBegin(p) ==
    /\ Running
    /\ up[p].pc = "idle"
    /\ upstreamsLeft > 0
    /\ upstreamsLeft' = upstreamsLeft - 1
    /\ \E identity \in uload.calls.identities :
         LET l == Len(apis[identity])
             call == [IdleUpstream EXCEPT !.identity = identity, !.l = l,
                                          !.tbl = apis[identity]]
         IN  IF l = 0
             THEN /\ up' = [up EXCEPT ![p] = Returned(call, NoResult, << >>, << >>)]
                  /\ UNCHANGED rlock
             ELSE /\ rlock' = rlock \cup {p}
                  /\ \E n \in (IF l = 1 THEN {<<0, 0>>}
                               ELSE IF l = 2 THEN {<<0, 1>>} ELSE pick(l)) :
                       up' = [up EXCEPT ![p] =
                                [call EXCEPT !.pc = "locked", !.n1 = n[1], !.n2 = n[2]]]
    /\ UNCHANGED <<apis, feedbackLoop, col, collectsLeft>>
    /\ UNCHANGED <<cfgVars, envVars, listenerVars, obsVars, sessVars, libVars>>

\* ep.address and ep.lastLoad, read under the read lock of the endpoint
Snapshot_Blank(k) == NoResult
Snapshot(k) == [address |-> k[2], load |-> heap[k].lastLoad]

\* epi1 := c.apis[identity][n1]; epi2 := c.apis[identity][n2], and the
\* snapshot of both; with one endpoint, the return of it.  An index that is
\* out of range panics, and the deferred RUnlock runs.
UpstreamRead(p) ==
    /\ Running
    /\ up[p].pc = "locked"
    /\ LET cur == apis[up[p].identity]
           k1 == cur[up[p].n1 + 1]
           k2 == cur[up[p].n2 + 1]
       IN  IF up[p].n1 >= Len(cur) \/ up[p].n2 >= Len(cur)
           THEN /\ up' = [up EXCEPT ![p].pc = "panicked"]
                /\ rlock' = rlock \ {p}
           ELSE IF up[p].l = 1
           THEN /\ up' = [up EXCEPT ![p] =
                            Returned(up[p], Snapshot(k1), << >>, << >>)]
                /\ rlock' = rlock \ {p}
           ELSE /\ up' = [up EXCEPT ![p].pc = "measure",
                                    ![p].epi = <<k1, k2>>,
                                    ![p].addresses = <<Snapshot(k1).address,
                                                       Snapshot(k2).address>>,
                                    ![p].loads = <<Snapshot(k1).load, Snapshot(k2).load>>]
                /\ UNCHANGED rlock
    /\ UNCHANGED <<apis, feedbackLoop, col, collectsLeft, upstreamsLeft>>
    /\ UNCHANGED <<cfgVars, envVars, listenerVars, obsVars, sessVars, libVars>>

\* w := [2]float64{c.measure(addresses[0]), c.measure(addresses[1])}
Measured(call) == <<measure(call.addresses[1]), measure(call.addresses[2])>>

\* The loads stand in for both averages when either average is 0.
Weights_PerCandidate(m, loads) ==
    <<IF IsZero(m[1]) THEN loads[1] ELSE m[1], IF IsZero(m[2]) THEN loads[2] ELSE m[2]>>
Weights(m, loads) == IF IsZero(m[1]) \/ IsZero(m[2]) THEN loads ELSE m

\* a sort that swaps the addresses and the weights and leaves the loads
Sorted_AddressesOnly(call, w) ==
    LET swap == Greater(w[1], w[2])
    IN  [addresses |-> IF swap THEN <<call.addresses[2], call.addresses[1]>>
                       ELSE call.addresses,
         loads |-> call.loads,
         w0 |-> IF swap THEN w[2] ELSE w[1],
         w1 |-> Plus(w[1], w[2])]

\* The sort, which puts the candidate of the smaller weight first, and the
\* cumulative distribution.
Sorted(call, w) ==
    LET swap == Greater(w[1], w[2])
    IN  [addresses |-> IF swap THEN <<call.addresses[2], call.addresses[1]>>
                       ELSE call.addresses,
         loads |-> IF swap THEN <<call.loads[2], call.loads[1]>> ELSE call.loads,
         w0 |-> IF swap THEN w[2] ELSE w[1],
         w1 |-> Plus(w[1], w[2])]

\* randomizer.Intn(int(w[1]) + 1)
Draws(st) == 0 .. Truncate(st.w1)

\* if draw <= w[0] { return addresses[1], loads[1] }; return addresses[0], loads[0]
Choice(st, draw) ==
    IF IntLeq(draw, st.w0) THEN [address |-> st.addresses[2], load |-> st.loads[2]]
    ELSE [address |-> st.addresses[1], load |-> st.loads[1]]

\* From the weights to the return, where the deferred RUnlock runs.
UpstreamChoose(p) ==
    /\ Running
    /\ up[p].pc = "measure"
    /\ LET m == Measured(up[p])
           w == Weights(m, up[p].loads)
           st == Sorted(up[p], w)
       IN  \E draw \in Draws(st) :
             up' = [up EXCEPT ![p] = Returned(up[p], Choice(st, draw), m, w)]
    /\ rlock' = rlock \ {p}
    /\ UNCHANGED <<apis, feedbackLoop, col, collectsLeft, upstreamsLeft>>
    /\ UNCHANGED <<cfgVars, envVars, listenerVars, obsVars, sessVars, libVars>>

(***************************************************************************)
(* The Upstreamer's specification.                                         *)
(***************************************************************************)
UpstreamerNext ==
    \/ ListenStart
    \/ Advance
    \/ ListenerTick
    \/ ListenerTickResync
    \/ ListenerDecodeError
    \/ ListenerHello
    \/ ListenerHelloResync
    \/ ListenerGoodbye
    \/ ListenerGoodbyeResync
    \/ ListenerGoodbyeDelete
    \/ ListenerPubsubError
    \/ ListenerCancel
    \/ \E p \in uload.calls.collectors : CollectCall(p)
    \/ \E p \in uload.calls.collectors : CollectAdd(p)
    \/ \E p \in uload.calls.collectors : CollectStore(p)
    \/ \E p \in uload.calls.upstreamers : UpstreamBegin(p)
    \/ \E p \in uload.calls.upstreamers : UpstreamRead(p)
    \/ \E p \in uload.calls.upstreamers : UpstreamChoose(p)

(***************************************************************************)
(* Specifications.  A session and an Upstreamer share nothing: each is     *)
(* checked while the other stays as it was built.                          *)
(***************************************************************************)
IdleWorkload == [roles |-> {pushSessionTypeEvent}, events |-> {}, pushes |-> 0,
                 filters |-> {}, frames |-> 0, callers |-> {}, closers |-> {},
                 parameters |-> NoToken, requests |-> RequestPool]
SessionIdle == newSession({IdleWorkload})
UpstreamerIdle == NewUpstreamer({Config(<< >>, FALSE, {}, 0, 0, FALSE, NoCalls)})

\* No subscription.
KafkaIdle ==
    /\ subPc = "off" /\ unsubscribePc = "off"
    /\ cLen = 0 /\ cCap = 0 /\ cClosed = 0
    /\ reading = FALSE
    /\ messagesLeft = 0 /\ retriesLeft = 0
    /\ sentAfterReturn = FALSE

LibIdle ==
    /\ movingAverage = NoAverage /\ added = << >> /\ path = << >> /\ segments = << >>
    /\ KafkaIdle

SessionInit == newSession(Workloads) /\ UpstreamerIdle /\ LibIdle

SessionNext ==
    \/ Listen
    \/ ReaderReceive
    \/ ReaderReceiveError
    \/ ReaderSignalStopAll
    \/ ReaderEnqueue
    \/ ReaderStop
    \/ \E c \in workload.callers : DirectPushCall(c)
    \/ \E c \in workload.callers : DirectPushSkip(c)
    \/ \E c \in workload.callers : WriterReceive(c)
    \/ WriterSkip
    \/ WriterSend
    \/ WriterSendError
    \/ WriterSignalStopAll
    \/ WriterStop
    \/ \E c \in workload.closers : CloseCall(c)
    \/ \E c \in workload.closers : CloseSignalStopAll(c)
    \/ ControlFilter
    \/ ControlRequest
    \/ HandlerRun
    \/ ControlShutdown

SessionSpec == SessionInit /\ [][SessionNext]_vars

\* A session in which close() is called, with the read loop, the write loop
\* and one DirectPush caller.
ShutdownInit == SessionInit /\ workload.closers # {}

\* The Go scheduler runs every goroutine that can run, and a select whose
\* stopAll case is ready picks it with probability 1/2 each time round: the
\* control loop does not wait forever in front of a step it can take.
ShutdownFairSpec == ShutdownInit /\ [][SessionNext]_vars /\ WF_vars(ControlShutdown)

\* Every goroutine that can take its next step takes it: a send on a
\* channel that has room, a select that has a ready case, a Send on the
\* socket; and a Receive that is pending when the socket is closed fails.
LoopsFairness ==
    /\ WF_vars(ControlShutdown)
    /\ WF_vars(ReaderSignalStopAll)
    /\ WF_vars(WriterSignalStopAll)
    /\ \A c \in Closers : WF_vars(CloseSignalStopAll(c))
    /\ WF_vars(ReaderEnqueue \/ ReaderStop)
    /\ WF_vars(ReaderReceiveError /\ ~socketOpen)
    /\ WF_vars(WriterStop)
    /\ WF_vars(WriterSkip \/ WriterSend \/ WriterSendError)

LoopsFairSpec == ShutdownInit /\ [][SessionNext]_vars /\ LoopsFairness

\* The goroutines of the session, and a write loop that takes the event of
\* a caller waiting at s.events <- event whenever its select is reached.
DirectPushFairSpec ==
    /\ ShutdownInit /\ [][SessionNext]_vars
    /\ LoopsFairness
    /\ WF_vars(Listen)
    /\ \A c \in Callers : WF_vars(DirectPushSkip(c)) /\ SF_vars(WriterReceive(c))

UpstreamerInit == NewUpstreamer(UpWorkloads) /\ SessionIdle /\ LibIdle

UpstreamerSpec == UpstreamerInit /\ [][UpstreamerNext]_vars

(***************************************************************************)
(* A MovingAverage on its own: NewMovingAverage(n), then Add after Add.    *)
(***************************************************************************)
Capacities == 1 .. MaxCapacity
Samples == {1, 2, 5}

MovingAverageAdd ==
    /\ movingAverage.present
    /\ Len(added) < MaxAdds
    /\ \E x \in Samples :
         /\ movingAverage' = Add(movingAverage, x)
         /\ added' = Append(added, x)
    /\ UNCHANGED <<path, segments, kafkaVars>>
    /\ UNCHANGED <<sessVars, upVars>>

MovingAverageInit ==
    /\ SessionIdle
    /\ UpstreamerIdle
    /\ \E n \in Capacities : movingAverage = NewMovingAverage(n)
    /\ added = << >>
    /\ path = << >>
    /\ segments = << >>
    /\ KafkaIdle

MovingAverageNext == MovingAverageAdd

MovingAverageSpec == MovingAverageInit /\ [][MovingAverageNext]_vars

(***************************************************************************)
(* Paths on their own: a path is written character by character, and       *)
(* extractAPIVersion and getTargetIdentity read it.                        *)
(***************************************************************************)
Slash == "/"
Digits == {"4", "7"}
Letters == {"v", "d"}

DigitValue(c) == IF c = "4" THEN 4 ELSE 7

\* strings.TrimPrefix(path, "/")
TrimSlash(p) == IF p # << >> /\ Head(p) = Slash THEN Tail(p) ELSE p

\* strings.Split(p, "/"): the characters between the slashes
RECURSIVE Split(_)
Split(p) ==
    IF p = << >> THEN << << >> >>
    ELSE LET rest == Split(Tail(p))
         IN  IF Head(p) = Slash THEN << << >> >> \o rest
             ELSE << <<Head(p)>> \o Head(rest) >> \o Tail(rest)

\* strconv.Atoi of a segment: decimal digits only
IsDigits(seg) == seg # << >> /\ \A i \in DOMAIN seg : seg[i] \in Digits

RECURSIVE Atoi(_)
Atoi(seg) == IF seg = << >> THEN 0
             ELSE 10 * Atoi(SubSeq(seg, 1, Len(seg) - 1)) + DigitValue(seg[Len(seg)])

Versioned(parts) == Len(parts) >= 2 /\ parts[1] = <<"v">>

extractAPIVersion_Lenient(p) ==
    LET parts == Split(TrimSlash(p))
    IN  IF Versioned(parts) /\ IsDigits(parts[2])
        THEN [version |-> Atoi(parts[2]), err |-> FALSE]
        ELSE [version |-> 0, err |-> FALSE]

extractAPIVersion(p) ==
    LET parts == Split(TrimSlash(p))
    IN  IF ~Versioned(parts) THEN [version |-> 0, err |-> FALSE]
        ELSE IF IsDigits(parts[2]) THEN [version |-> Atoi(parts[2]), err |-> FALSE]
        ELSE [version |-> 0, err |-> TRUE]

getTargetIdentity(p) ==
    LET parts == Split(TrimSlash(p))
    IN  IF Versioned(parts) /\ IsDigits(parts[2])
        THEN IF Len(parts) >= 3 THEN parts[3] ELSE << >>
        ELSE parts[1]

\* The path so far, without its leading slash if it has one.
Written == IF segments.leading THEN Tail(path) ELSE path

PathChar ==
    /\ segments # << >>
    /\ Len(Written) < MaxPath
    /\ \E c \in Digits \cup Letters :
         /\ path' = Append(path, c)
         /\ segments' = [segments EXCEPT !.of[Len(segments.of)] = Append(@, c)]
    /\ UNCHANGED <<movingAverage, added, kafkaVars>>
    /\ UNCHANGED <<sessVars, upVars>>

\* A slash ends a segment; a path that does not begin with a slash begins
\* with a character of its first segment.
PathSlash ==
    /\ segments # << >>
    /\ Len(Written) < MaxPath
    /\ segments.leading \/ path # << >>
    /\ path' = Append(path, Slash)
    /\ segments' = [segments EXCEPT !.of = Append(@, << >>)]
    /\ UNCHANGED <<movingAverage, added, kafkaVars>>
    /\ UNCHANGED <<sessVars, upVars>>

PathInit ==
    /\ SessionIdle
    /\ UpstreamerIdle
    /\ movingAverage = NoAverage
    /\ added = << >>
    /\ \E leading \in BOOLEAN :
         /\ path = IF leading THEN <<Slash>> ELSE << >>
         /\ segments = [leading |-> leading, of |-> << << >> >>]
    /\ KafkaIdle

PathNext ==
    \/ PathChar
    \/ PathSlash

PathSpec == PathInit /\ [][PathNext]_vars

(***************************************************************************)
(* kafkaPubSub.Subscribe: the goroutine of one subscription, the caller of *)
(* the function it returned, and the subscriber that receives from c.      *)
(***************************************************************************)
kafkaRest == <<sessVars, upVars, movingAverage, added, path, segments>>

\* sarama.NewConsumer or consumer.ConsumePartition returns an error.
KafkaConnectError ==
    /\ subPc = "connect"
    /\ retriesLeft > 0
    /\ retriesLeft' = retriesLeft - 1
    /\ subPc' = "retry"
    /\ UNCHANGED <<unsubscribePc, cLen, cCap, cClosed, reading, messagesLeft, sentAfterReturn>>
    /\ UNCHANGED kafkaRest

\* if err1 == nil && err2 == nil { break }
KafkaConnected ==
    /\ subPc = "connect"
    /\ subPc' = "consume"
    /\ UNCHANGED <<unsubscribePc, cLen, cCap, cClosed, reading, messagesLeft, retriesLeft,
                   sentAfterReturn>>
    /\ UNCHANGED kafkaRest

\* select: case <-time.After(p.retryInterval)
KafkaRetry ==
    /\ subPc = "retry"
    /\ subPc' = "connect"
    /\ UNCHANGED <<unsubscribePc, cLen, cCap, cClosed, reading, messagesLeft, retriesLeft,
                   sentAfterReturn>>
    /\ UNCHANGED kafkaRest

\* select: case <-unsubscribe: return, in either loop.  The channel is
\* unbuffered: the send of the caller and this receive are one step.
KafkaUnsubscribed ==
    /\ subPc \in {"retry", "consume"}
    /\ unsubscribePc = "sending"
    /\ unsubscribePc' = "returned"
    /\ subPc' = "return"
    /\ UNCHANGED <<cLen, cCap, cClosed, reading, messagesLeft, retriesLeft, sentAfterReturn>>
    /\ UNCHANGED kafkaRest

\* select: case data := <-partition.Messages()
KafkaMessage ==
    /\ subPc = "consume"
    /\ messagesLeft > 0
    /\ messagesLeft' = messagesLeft - 1
    /\ subPc' = "send"
    /\ UNCHANGED <<unsubscribePc, cLen, cCap, cClosed, reading, retriesLeft, sentAfterReturn>>
    /\ UNCHANGED kafkaRest

\* c <- publication: into the buffer of c when it has room, or to the
\* subscriber that waits on an empty c.
KafkaSend ==
    /\ subPc = "send"
    /\ \/ cLen < cCap /\ cLen' = cLen + 1
       \/ cLen = 0 /\ reading /\ cLen' = cLen
    /\ sentAfterReturn' = (sentAfterReturn \/ unsubscribePc = "returned")
    /\ subPc' = "consume"
    /\ UNCHANGED <<unsubscribePc, cCap, cClosed, reading, messagesLeft, retriesLeft>>
    /\ UNCHANGED kafkaRest

\* defer func() { close(c) }()
KafkaClose ==
    /\ subPc = "return"
    /\ cClosed' = cClosed + 1
    /\ subPc' = "done"
    /\ UNCHANGED <<unsubscribePc, cLen, cCap, reading, messagesLeft, retriesLeft,
                   sentAfterReturn>>
    /\ UNCHANGED kafkaRest

\* The function Subscribe returned is called: unsubscribe <- true.
UnsubscribeCall ==
    /\ unsubscribePc = "idle"
    /\ unsubscribePc' = "sending"
    /\ UNCHANGED <<subPc, cLen, cCap, cClosed, reading, messagesLeft, retriesLeft,
                   sentAfterReturn>>
    /\ UNCHANGED kafkaRest

\* The subscriber receives a publication that c buffers.
SubscriberReceive ==
    /\ reading
    /\ cLen > 0
    /\ cLen' = cLen - 1
    /\ UNCHANGED <<subPc, unsubscribePc, cCap, cClosed, reading, messagesLeft, retriesLeft,
                   sentAfterReturn>>
    /\ UNCHANGED kafkaRest

\* The subscriber stops receiving from c.
SubscriberStops ==
    /\ reading
    /\ reading' = FALSE
    /\ UNCHANGED <<subPc, unsubscribePc, cLen, cCap, cClosed, messagesLeft, retriesLeft,
                   sentAfterReturn>>
    /\ UNCHANGED kafkaRest

\* Subscribe(c, topic) has returned: its goroutine starts, the function it
\* returned has not been called, c is empty and its subscriber receives.
Subscribe ==
    /\ subPc = "connect" /\ unsubscribePc = "idle"
    /\ cLen = 0 /\ cCap \in 0 .. MaxChanCap /\ cClosed = 0
    /\ reading = TRUE
    /\ messagesLeft = MaxMessages /\ retriesLeft = MaxRetries
    /\ sentAfterReturn = FALSE

KafkaInit ==
    /\ SessionIdle
    /\ UpstreamerIdle
    /\ movingAverage = NoAverage /\ added = << >> /\ path = << >> /\ segments = << >>
    /\ Subscribe

KafkaNext ==
    \/ KafkaConnectError
    \/ KafkaConnected
    \/ KafkaRetry
    \/ KafkaUnsubscribed
    \/ KafkaMessage
    \/ KafkaSend
    \/ KafkaClose
    \/ UnsubscribeCall
    \/ SubscriberReceive
    \/ SubscriberStops

KafkaSpec == KafkaInit /\ [][KafkaNext]_vars

\* The goroutine of the subscription runs when it can, and a select that is
\* reached again and again with a caller waiting on unsubscribe takes that
\* case in the end.  Nothing is asked of the subscriber, of the partition or
\* of the caller of unsubscribe.
KafkaFairness ==
    /\ WF_vars(KafkaConnectError \/ KafkaConnected)
    /\ WF_vars(KafkaSend)
    /\ WF_vars(KafkaClose)
    /\ SF_vars(KafkaUnsubscribed)

KafkaFairSpec == KafkaInit /\ [][KafkaNext]_vars /\ KafkaFairness

(***************************************************************************)
(* Claims about the session.                                               *)
(***************************************************************************)

\* C1: in a session whose listen() runs once, in either role and for any
\* interleaving of a receive error of the read loop, a send error of the
\* write loop and a close() call, the unregister callback is never invoked
\* twice, and once a value has been sent on stopAll and the control loop
\* runs, the callback is eventually invoked.
C1_UnregisterExactlyOnce ==
    /\ [](unregisterCalls <= 1)
    /\ (stopAllSignalled /\ cpc # "new") ~> (unregisterCalls = 1)

\* The read loop, the write loop and close() have all three signalled
\* stopAll, and the callback has run once.
C1_Witness ==
    /\ unregisterCalls = 1
    /\ rpc = "done" /\ wpc = "done"
    /\ \A k \in Closers : closePc[k] = "returned"
    /\ stopAll = 2

ShutdownOrder == <<"stopRead", "stopWrite", "unregister", "closeSocket", "clearRefs">>

\* C5: on stopAll the control loop signals stopRead and stopWrite, then
\* invokes the unregister callback, then closes the socket, then clears the
\* callback references: the statements run in that order, the socket is
\* never closed and the references never cleared before the callback ran,
\* and the callback never runs before both loops were signalled.
C5_ShutdownOrder ==
    /\ steps = SubSeq(ShutdownOrder, 1, Len(steps))
    /\ (unregisterCalls > 0 =>
          /\ Len(steps) >= 3
          /\ steps[1] = "stopRead" /\ steps[2] = "stopWrite")
    /\ (~socketOpen => unregisterCalls = 1)
    /\ (refsCleared => ~socketOpen /\ unregisterCalls = 1)
    /\ (cpc \in {"new", "loop"} => steps = <<>> /\ socketOpen /\ ~refsCleared)

\* The deferred function ran to its end.
C5_Witness ==
    /\ cpc = "done"
    /\ steps = ShutdownOrder
    /\ refsCleared /\ ~socketOpen /\ unregisterCalls = 1

\* The events of s that DirectPush is to hand to the write loop.
NotBeforeStart(s) == SelectSeq(s, LAMBDA e : e.Timestamp >= StartTime)

\* C8: DirectPush never hands an event to the write loop whose timestamp is
\* strictly before startTime, and hands over every event whose timestamp is
\* at or after startTime: at every point of a call, the events handed over
\* are those events among the ones the loop went through, in their order,
\* a dropped event in front of them or between them included.
C8_DirectPushDropsOnlyOlder ==
    /\ \A c \in Callers :
         dp[c].handed = NotBeforeStart(SubSeq(dp[c].evs, 1, dp[c].pos - 1))
    /\ \A i \in 1 .. Len(wlog) : wlog[i].event.Timestamp >= StartTime
    /\ (wpc = "handle" => wevent.Timestamp >= StartTime)

\* A call went through an event from before startTime, dropped it, and then
\* handed over an event stamped with startTime itself.
C8_Witness ==
    \E c \in Callers :
        /\ ~InCall(c)
        /\ Len(dp[c].evs) = 2
        /\ dp[c].evs[1].Timestamp < StartTime
        /\ dp[c].evs[2].Timestamp = StartTime
        /\ dp[c].handed = <<dp[c].evs[2]>>

\* C9: the frames the write loop emits are a subsequence of the events given
\* to DirectPush: every frame is a given event, no event is emitted twice,
\* and a later event is never emitted before an earlier one unless the two
\* come from calls that ran concurrently.
C9_FramesKeepOrder ==
    /\ \A i \in 1 .. Len(frames) :
         /\ frames[i].n \in 1 .. Len(given)
         /\ given[frames[i].n] = frames[i]
    /\ \A i, j \in 1 .. Len(frames) :
         i < j =>
           \/ frames[i].n < frames[j].n
           \/ {frames[i].call, frames[j].call} \in overlap

\* Two events of one call, or of two calls made one after the other, were
\* both emitted.
C9_Witness ==
    /\ Len(frames) >= 2
    /\ \E i, j \in 1 .. Len(frames) :
         /\ i < j
         /\ {frames[i].call, frames[j].call} \notin overlap

\* C10: the write loop sends an event if and only if the filter installed
\* when it handles the event is nil or does not filter out the event's
\* (identity, type).  A filtered-out event gets no Send call and no frame
\* and leaves the write loop in its loop; an event that is not filtered out
\* gets one Send call, which writes exactly one frame unless it fails.
C10_FilterDecidesSend ==
    /\ \A i \in 1 .. Len(wlog) :
         LET e == wlog[i].event
             f == wlog[i].installed
             filteredOut == ~f.nil /\ <<e.Identity, e.Type>> \in f.out
             nframes == Cardinality({k \in 1 .. Len(frames) : frames[k].n = e.n})
         IN  /\ (wlog[i].out = "filtered") <=> filteredOut
             /\ wlog[i].out = "filtered" => nframes = 0
             /\ wlog[i].out = "sent" => nframes = 1
             /\ wlog[i].out = "failed" => nframes = 0
             /\ \A k \in 1 .. Len(wlog) : wlog[k].event.n = e.n => k = i
    /\ Len(frames) <= Len(wlog)
    /\ (wpc = "stopAll" => wlog # <<>> /\ wlog[Len(wlog)].out = "failed")

\* Under one and the same filter, an event was filtered out and another one
\* was sent, the write loop being back in its loop.
C10_Witness ==
    /\ wpc = "select"
    /\ \E i, j \in 1 .. Len(wlog) :
         /\ i < j
         /\ wlog[i].out = "filtered"
         /\ wlog[j].out = "sent"
         /\ wlog[i].installed = wlog[j].installed

(***************************************************************************)
(* Claims about the Upstreamer.                                            *)
(***************************************************************************)

\* C2: once a tick is handled, every endpoint the tick found last seen before
\* its cutoff is gone from the registry and from the RouteTable, also when
\* several endpoints are outdated at that tick, and every endpoint it found
\* last seen at the cutoff or later is still registered.
C2_TickRemovesEveryOutdated ==
    lpc = "idle" =>
        /\ \A k \in tickSeen.outdated :
              /\ k \notin Registered(services)
              /\ \A r \in RouteIdentities : k \notin Range(apis[r])
        /\ \A k \in tickSeen.fresh : k \in Registered(services)

\* C3: for a list of required services that is not empty, between two
\* publications ready is closed exactly when a hello has been handled for
\* every name of the list.
C3_ReadyWhenEveryRequiredSeen ==
    (uload.requiredServices # << >> /\ lpc = "idle") =>
        ((ready >= 1) <=> (Range(uload.requiredServices) \subseteq helloHandled))

\* C4: ready is never closed twice, and with no required service it is
\* closed by the listener as it starts, before it receives any publication.
C4_ReadyClosedOnce ==
    /\ ready <= 1
    /\ uload.requiredServices = << >> =>
          /\ lpc = "new" => ready = 0 /\ pubsReceived = 0
          /\ lpc # "new" => ready = 1 /\ closedAt = 0

\* ready was closed by the hello of the one required service, and the hello
\* of another service has been handled since.
C4_Witness ==
    /\ uload.requiredServices = <<"A">>
    /\ closedAt = 1
    /\ ready = 1
    /\ services["B"].present
    /\ lpc = "idle"

\* C6: the feedback entry of a removed endpoint is deleted by the time the
\* RouteTable is swapped, and between two publications the feedback map has
\* no entry for an address whose removal was handled and that no service
\* has registered since, whatever Collect calls run next to the listener.
C6_NoFeedbackAfterRemoval ==
    /\ lpc = "goodbyeDelete" => ~feedbackLoop[lping.Endpoint].present
    /\ lpc = "idle" =>
          \A a \in removedHandled :
             a \notin {k[2] : k \in Registered(services)} => ~feedbackLoop[a].present

\* C7: an Upstream call reads the count of endpoints and its candidates in
\* one version of the RouteTable: from the count to the return the table of
\* its identity is the one it counted, both indices are below the count, the
\* candidates are the endpoints of that table at the indices, and no index
\* is out of range.
C7_UpstreamReadsOneTable ==
    \A p \in Upstreamers :
        /\ up[p].pc # "panicked"
        /\ up[p].pc \in {"locked", "measure"} =>
              /\ apis[up[p].identity] = up[p].tbl
              /\ up[p].l = Len(up[p].tbl)
              /\ up[p].n1 < up[p].l
              /\ up[p].n2 < up[p].l
        /\ up[p].pc = "measure" =>
              up[p].epi = <<up[p].tbl[up[p].n1 + 1], up[p].tbl[up[p].n2 + 1]>>

\* A call has read both candidates of two while the listener, which has
\* handled a goodbye, waits for the lock to swap the table.
C7_Witness ==
    \E p \in Upstreamers :
        /\ up[p].pc = "measure"
        /\ up[p].l = 2
        /\ lpc = "goodbyeResync"

(***************************************************************************)
(* Claims about the operation handlers.                                    *)
(***************************************************************************)
ResponsesTo(n) == SelectSeq(responses, LAMBDA r : r.n = n)

\* C11: in an API session, for a request whose dispatcher panicked exactly
\* one response is written, an error with code 500; every request a handler
\* was started for and that has returned has exactly one response; and the
\* step in which a dispatcher panics sends nothing on stopAll and leaves the
\* control loop, the read loop and the queued requests as they were, so the
\* requests received afterwards are dispatched as before.
C11_PanicIsCaught ==
    /\ [](\A n \in panics :
            /\ Len(ResponsesTo(n)) = 1
            /\ ResponsesTo(n)[1].kind = "error"
            /\ ResponsesTo(n)[1].code = StatusInternalServerError)
    /\ [](\A n \in 1 .. Len(dispatched) :
            (\E h \in handlers : h.n = n) \/ Len(ResponsesTo(n)) = 1)
    /\ [][panics' # panics => UNCHANGED <<stopVars, controlVars, readVars>>]_vars

\* A request was dispatched after a dispatcher had panicked, and its
\* response is written; nothing was sent on stopAll.
C11_Witness ==
    /\ sType = pushSessionTypeAPI
    /\ panics # {}
    /\ \E i \in DOMAIN responses : responses[i].afterPanic /\ responses[i].kind = "response"
    /\ ~stopAllSignalled
    /\ cpc = "loop"

\* C23: in an API session whose token parameter is not empty, every
\* request handed to a handler has Username Bearer and that token as
\* Password, whatever its frame carried; when the token parameter is absent
\* or empty, the request handed over is the one of the frame.
C23_TokenReplacesCredentials ==
    \A h \in handlers :
        IF workload.parameters.has /\ workload.parameters.token # ""
        THEN /\ h.request.Username = "Bearer"
             /\ h.request.Password = workload.parameters.token
             /\ h.request.Operation = h.frame.Operation
        ELSE h.request = h.frame

\* A request whose frame carried credentials of its own is with its
\* handler, in a session that has a token.
C23_Witness ==
    \E h \in handlers :
        /\ workload.parameters.token = "t1"
        /\ h.frame.Username = "u"
        /\ h.request.Password = "t1"

\* The read loop and the write loop after their failure.
ReaderFailed == rpc \in {"stopAll", "done"}
WriterFailed == wlog # << >> /\ wlog[Len(wlog)].out = "failed"

\* C24: a receive error of the read loop and a send error of the write
\* loop are terminal.  The loop that failed takes no frame from the socket
\* and writes none to it any more, the failed Send is the last thing the
\* write loop did with an event, the loop signals stopAll and returns, and
\* the session is shut down and unregistered.
C24_FailureIsTerminal ==
    /\ [][ReaderFailed => /\ ReaderFailed'
                          /\ UNCHANGED <<framesLeft, rframe>>
                          /\ Len(inbox') <= Len(inbox)]_vars
    /\ [][WriterFailed => UNCHANGED <<wlog, frames, wevent>>]_vars
    /\ [](WriterFailed => wpc \in {"stopAll", "done"})
    /\ (rpc = "stopAll") ~> (rpc = "done" /\ stopAllSignalled)
    /\ (wpc = "stopAll") ~> (wpc = "done" /\ stopAllSignalled)
    /\ (rpc = "stopAll" \/ wpc = "stopAll") ~> (unregisterCalls = 1 /\ ~socketOpen)

\* The write loop failed on an event and the read loop on a receive before
\* the control loop had handled anything; the session is unregistered.
C24_Witness ==
    /\ WriterFailed
    /\ rpc = "done" /\ wpc = "done"
    /\ framesLeft > 0
    /\ \A k \in Closers : closePc[k] = "idle"
    /\ unregisterCalls = 1

\* C25: every send on a stop channel completes, whatever the order in which
\* the read loop, the write loop and one close() call signal stopAll: the
\* three senders of stopAll return, and the control loop gets past its
\* sends on stopRead and stopWrite.
C25_StopSendsComplete ==
    /\ (rpc = "stopAll") ~> (rpc = "done")
    /\ (wpc = "stopAll") ~> (wpc = "done")
    /\ \A c \in Closers : (closePc[c] = "sending") ~> (closePc[c] = "returned")
    /\ (cpc = "stopRead") ~> (stopRead + stopWrite > 0 /\ cpc \notin {"stopRead", "stopWrite"})
    /\ [](stopAll <= StopAllCap /\ stopRead <= StopReadCap /\ stopWrite <= StopWriteCap)

\* The read loop, the write loop and close() have each sent on stopAll (the
\* two loops did not stop on stopRead and stopWrite, which are still in
\* their channels), and the control loop has finished.
C25_Witness ==
    /\ rpc = "done" /\ wpc = "done"
    /\ \A k \in Closers : closePc[k] = "returned"
    /\ stopRead = 1 /\ stopWrite = 1
    /\ stopAll = StopAllCap
    /\ cpc = "done"

\* C27: once the control loop has handled stopAll, the read loop and the
\* write loop both terminate, in both roles (a Receive that is pending when
\* the socket is closed fails).
C27_LoopsTerminate ==
    (cpc \notin {"new", "loop"}) ~> (rpc = "done" /\ wpc = "done")

\* The read loop was stopped in front of the full read-side buffer.
C27_Witness ==
    /\ Len(inbox) = ReadChanCap
    /\ rpc = "done" /\ wpc = "done"
    /\ stopRead = 0
    /\ cpc = "done"

\* C29: every DirectPush call eventually returns: no caller stays blocked
\* at its send on the events channel, also when the write loop terminates
\* before or during the call.
C29_EveryCallReturns ==
    \A c \in Callers : InCall(c) ~> ~InCall(c)

\* C31: a handler that was started before the session shut down calls its
\* dispatcher with the processorFinder and the pushEventsFunc the session was
\* built with, never with a reference the control loop has cleared, however
\* the handler and the steps of the shutdown interleave.
C31_HandlersSeeInstalledRefs ==
    \A a \in dispatcherArgs :
        a.processorFinder = "installed" /\ a.pushEventsFunc = "installed"

\* The handler of each operation.
KnownHandlers ==
    {<<"retrieve-many", "handleRetrieveMany">>, <<"retrieve", "handleRetrieve">>,
     <<"create", "handleCreate">>, <<"update", "handleUpdate">>,
     <<"delete", "handleDelete">>, <<"info", "handleInfo">>, <<"patch", "handlePatch">>}

\* The control loop of an API session takes a request from s.requests.
TakesRequest ==
    /\ sType = pushSessionTypeAPI
    /\ cpc = "loop"
    /\ inbox # << >>
    /\ inbox' = Tail(inbox)

\* C32: in an API session, the step that takes a request of an operation
\* that is none of the seven starts no handler, writes no response, sends
\* nothing on a stop channel and leaves the control loop and the read loop
\* where they were, so that the requests that follow are dispatched; the
\* step that takes a request of one of the seven starts exactly one handler,
\* that of the operation.  Every response is that of a started handler.
C32_OnlyKnownOperationsDispatch ==
    /\ [][TakesRequest =>
            IF Head(inbox).Operation \in Operations
            THEN \E h \in handlers' \ handlers :
                    /\ handlers' = handlers \cup {h}
                    /\ <<Head(inbox).Operation, h.handler>> \in KnownHandlers
                    /\ h.frame = Head(inbox)
            ELSE UNCHANGED <<handlers, responses, panics, dispatched, stopVars,
                             cpc, rpc, socketOpen>>]_vars
    /\ [](\A h \in handlers : h.frame.Operation \in Operations)
    /\ [](\A i \in DOMAIN responses : responses[i].n \in 1 .. Len(dispatched))

\* The second request the control loop took is the first a handler was
\* started for, the one of a Delete: the first was of no known operation.
\* Nothing was sent on stopAll and the control loop is in its loop.
C32_Witness ==
    /\ \E h \in handlers : h.nth = 2 /\ h.n = 1 /\ h.handler = "handleDelete"
    /\ Cardinality(handlers) = 1
    /\ responses = << >>
    /\ ~stopAllSignalled
    /\ cpc = "loop"

(***************************************************************************)
(* Claims about Upstream and Collect.                                      *)
(***************************************************************************)

\* C12: when an Upstream call has two candidates of different addresses that
\* both have a non-zero measured average, and one average is smaller than the
\* other, the candidate of the smaller average is returned for strictly more
\* than half of the draws 0 .. floor(a + b).
C12_LowerAverageWinsMostDraws ==
    \A p \in Upstreamers :
        LET m == Measured(up[p])
            st == Sorted(up[p], Weights(m, up[p].loads))
            low == IF Greater(m[2], m[1]) THEN up[p].addresses[1] ELSE up[p].addresses[2]
        IN  (/\ up[p].pc = "measure"
             /\ up[p].addresses[1] # up[p].addresses[2]
             /\ ~IsZero(m[1]) /\ ~IsZero(m[2])
             /\ Greater(m[1], m[2]) \/ Greater(m[2], m[1]))
            => 2 * Cardinality({d \in Draws(st) : Choice(st, d).address = low})
                 > Cardinality(Draws(st))

\* An Upstream call at its draw that falls back to the two lastLoad values,
\* which differ and are both within 0..1.
FallsBackToLoads(p) ==
    LET m == Measured(up[p])
        loads == up[p].loads
    IN  /\ up[p].pc = "measure"
        /\ up[p].addresses[1] # up[p].addresses[2]
        /\ IsZero(m[1]) \/ IsZero(m[2])
        /\ Greater(loads[1], loads[2]) \/ Greater(loads[2], loads[1])
        /\ \A i \in 1 .. 2 : ~Greater(Zero, loads[i]) /\ ~Greater(loads[i], Rat(1, 1))

\* The draws of the call that return the candidate of the smaller lastLoad.
DrawsOfLessLoaded(p) ==
    LET st == Sorted(up[p], Weights(Measured(up[p]), up[p].loads))
        low == IF Greater(up[p].loads[2], up[p].loads[1]) THEN up[p].addresses[1]
               ELSE up[p].addresses[2]
    IN  {d \in Draws(st) : Choice(st, d).address = low}

AllDraws(p) == Draws(Sorted(up[p], Weights(Measured(up[p]), up[p].loads)))

\* C28: when an Upstream call falls back to the lastLoad weights of two
\* candidates with different loads in 0..1, the candidate of the smaller
\* lastLoad is returned for at least half of the draws 0 .. floor(l0 + l1).
C28_LessLoadedWinsHalfTheDraws ==
    \A p \in Upstreamers :
        FallsBackToLoads(p) =>
            2 * Cardinality(DrawsOfLessLoaded(p)) >= Cardinality(AllDraws(p))

\* What holds instead: the less loaded candidate gets half of the draws when
\* the two loads add up to 1 or more, and no draw at all when they do not.
LessLoadedByTheSumOfLoads ==
    \A p \in Upstreamers :
        FallsBackToLoads(p) =>
            IF Truncate(Plus(up[p].loads[1], up[p].loads[2])) >= 1
            THEN 2 * Cardinality(DrawsOfLessLoaded(p)) = Cardinality(AllDraws(p))
            ELSE DrawsOfLessLoaded(p) = {}

\* C26: when a Collect call that found no entry for its address stores its
\* new entry, the samples that other Collect calls have added for the
\* address by then are kept: the call that lost the race to create the entry
\* drops its own sample and no other.
C26_StoreKeepsAddedSamples ==
    [][\A p \in Collectors :
         (col[p].pc = "miss" /\ col'[p].pc = "idle" /\ feedbackLoop[col[p].address].present)
            => feedbackLoop'[col[p].address].samples
                 = feedbackLoop[col[p].address].samples]_vars

\* C30: the address and the load that an Upstream call with two candidates
\* returns are those of one candidate, as they were snapshotted: the load is
\* the lastLoad read from the endpoint whose address is returned, whether or
\* not the sort swapped the candidates and whichever weights were used.
C30_ReturnedPairIsOneSnapshot ==
    \A p \in Upstreamers :
        (up[p].returned /\ up[p].l >= 2) =>
            \E i \in 1 .. 2 : /\ up[p].result.address = up[p].addresses[i]
                             /\ up[p].result.load = up[p].loads[i]

\* A call has returned the candidate that was read second, of a different
\* load than the first, after the sort swapped the two on their measured
\* averages.
C30_Witness ==
    \E p \in Upstreamers :
        /\ up[p].returned /\ up[p].l >= 2
        /\ up[p].loads[1] # up[p].loads[2]
        /\ ~IsZero(up[p].m[1]) /\ ~IsZero(up[p].m[2])
        /\ up[p].w = up[p].m
        /\ Greater(up[p].w[1], up[p].w[2])
        /\ up[p].result = [address |-> up[p].addresses[2], load |-> up[p].loads[2]]

\* C13: the weights of an Upstream call with two candidates are the two
\* lastLoad values when the measured average of either candidate is 0, and
\* the two measured averages when both are not 0: never one of each.
C13_WeightsFromOneSource ==
    \A p \in Upstreamers :
        (up[p].returned /\ up[p].l >= 2) =>
            /\ (IsZero(up[p].m[1]) \/ IsZero(up[p].m[2])) => up[p].w = up[p].loads
            /\ (~IsZero(up[p].m[1]) /\ ~IsZero(up[p].m[2])) => up[p].w = up[p].m
            /\ up[p].w \in {up[p].loads, up[p].m}

\* A call has returned for which one candidate had a non-zero average and
\* the other had none.
C13_Witness ==
    \E p \in Upstreamers :
        /\ up[p].returned
        /\ up[p].l >= 2
        /\ ~IsZero(up[p].m[1]) \/ ~IsZero(up[p].m[2])
        /\ IsZero(up[p].m[1]) \/ IsZero(up[p].m[2])
        /\ up[p].m # up[p].loads

\* C14: an Upstream call returns the empty address exactly when the table
\* it counted has no endpoint for its identity, and then with load 0; in
\* every other case it returns the address of an endpoint of that table.
C14_EmptyIffNoEndpoint ==
    \A p \in Upstreamers :
        up[p].returned =>
            /\ (up[p].result.address = NoAddress) <=> (up[p].tbl = << >>)
            /\ up[p].result.address = NoAddress => up[p].result.load = Zero
            /\ up[p].tbl # << >> =>
                  \E i \in DOMAIN up[p].tbl : up[p].tbl[i][2] = up[p].result.address

\* A call has returned the empty address after the tick removed the last
\* endpoint of its route.
C14_Witness ==
    \E p \in Upstreamers :
        /\ up[p].returned
        /\ up[p].result.address = NoAddress
        /\ tickSeen.outdated # {}
        /\ removedHandled # {}
        /\ lpc = "idle"

\* No endpoint is ever removed in this run (no goodbye, no tick), Collect
\* has one caller, whose calls come one after the other, and no Collect call
\* is between its Load and its Add or Store.
CollectsInSequence ==
    /\ Cardinality(uload.calls.collectors) <= 1
    /\ uload.time = 0
    /\ \A sp \in uload.pings : sp.Status = serviceStatusHello
    /\ \A p \in Collectors : col[p].pc = "idle"

\* The feedback entry of address a after k Collect calls that count.
HoldsAfter(a, k) ==
    /\ k = 0 => ~feedbackLoop[a].present
    /\ k >= 1 => /\ feedbackLoop[a].present
                 /\ Len(feedbackLoop[a].samples) =
                       IF k - 1 < uload.feedbackLoopSamples THEN k - 1
                       ELSE uload.feedbackLoopSamples
    /\ k = 1 => IsZero(measure(a))

\* A Collect call that returns at once leaves the feedback entries alone.
IgnoredCollectChangesNothing ==
    (\A p \in Collectors : col[p].pc = "idle" /\ col'[p].pc = "idle")
        /\ collectsLeft' # collectsLeft
    => UNCHANGED feedbackLoop

\* C15 as stated: Collect with zero elapsed time changes nothing; the first
\* Collect with a non-zero elapsed time for an address without an entry
\* stores an empty MovingAverage (measure stays 0), and after k >= 1
\* Collects with a non-zero elapsed time, one after the other, the entry
\* holds min(k-1, feedbackLoopSamples) samples.
C15_NonZeroElapsedCounts ==
    CollectsInSequence =>
        \A a \in Addresses : HoldsAfter(a, collected[a].sampled + collected[a].ignored)

\* C15, amended: Collect with an elapsed time below one microsecond changes
\* nothing; the first Collect of at least one microsecond for an address
\* without an entry stores an empty MovingAverage (measure stays 0), and
\* after k >= 1 such Collects, one after the other, the entry holds
\* min(k-1, feedbackLoopSamples) samples.
C15_WholeMicrosecondsCount ==
    /\ [](CollectsInSequence =>
            \A a \in Addresses : HoldsAfter(a, collected[a].sampled))
    /\ [][IgnoredCollectChangesNothing]_vars

\* More Collects than the MovingAverage holds samples have been counted for
\* an address.
C15_Witness ==
    /\ CollectsInSequence
    /\ \E a \in Addresses :
          /\ collected[a].sampled > uload.feedbackLoopSamples + 1
          /\ Len(feedbackLoop[a].samples) = uload.feedbackLoopSamples

(***************************************************************************)
(* Claims about the registry and the RouteTable                            *)
(***************************************************************************)
\* The listener takes a hello for an endpoint that is registered: the
\* endpointInfo of that endpoint is refreshed with the load of the ping at
\* the present time, and the listener is not in the goodbye case.
HelloAgain(pub) ==
    LET sp == OverrideEndpoint(uload, pub)
    IN  /\ lpc = "idle"
        /\ lpc' \in {"idle", "helloResync"}
        /\ pingsLeft' = pingsLeft - 1
        /\ sp.Status = serviceStatusHello
        /\ services[sp.Name].present
        /\ sp.Endpoint \in services[sp.Name].endpoints
        /\ heap' = [heap EXCEPT ![<<sp.Name, sp.Endpoint>>] =
                                  [lastLoad |-> sp.Load, lastSeen |-> now]]

\* C16: a hello for an endpoint that an earlier hello registered reports no
\* change: the listener rebuilds no RouteTable, and the registry and the
\* RouteTable are the ones the first hello left, with one entry for the
\* address.
C16_SecondHelloChangesNothing ==
    /\ [][\A pub \in uload.pings :
            HelloAgain(pub) => /\ lpc' = "idle"
                               /\ services' = services
                               /\ apis' = apis]_vars
    /\ [](\A r \in RouteIdentities :
            \A i, j \in DOMAIN apis[r] : apis[r][i] = apis[r][j] => i = j)

\* The one endpoint of the registry has been registered by a hello and
\* refreshed by a later one, and is listed once.
C16_Witness ==
    /\ lpc = "idle"
    /\ pingsLeft = uload.pingCount - 2
    /\ \E k \in EndpointKeys :
          /\ Registered(services) = {k}
          /\ heap[k].lastSeen > 0
          /\ apis["r1"] = <<k>>

\* C17: once the listener has handled a goodbye for a registered endpoint
\* and rebuilt the RouteTable, no route lists that endpoint, and no service
\* of the registry is left without an endpoint; the listener rebuilds and
\* deletes only for a goodbye whose endpoint was registered, and a ping it
\* handles without a rebuild leaves the registry, the RouteTable and the
\* feedback map as they were.
C17_GoodbyeRemovesOnlyTheRegistered ==
    /\ [](lpc = "goodbyeDelete" =>
            \A r \in RouteIdentities :
                \A i \in DOMAIN apis[r] : apis[r][i] # <<lping.Name, lping.Endpoint>>)
    /\ [](\A n \in ServiceNames : services[n].present => services[n].endpoints # {})
    /\ [][(lpc = "idle" /\ lpc' = "goodbyeResync") =>
             /\ <<lping'.Name, lping'.Endpoint>> \in Registered(services)
             /\ <<lping'.Name, lping'.Endpoint>> \notin Registered(services')]_vars
    /\ [][(lpc = "idle" /\ lpc' = "idle" /\ pingsLeft' = pingsLeft - 1) =>
             UNCHANGED <<services, apis, feedbackLoop>>]_vars

\* The goodbye for the last endpoint of a service is handled: the service
\* is gone and the RouteTable is rebuilt without the endpoint.
C17_Witness ==
    /\ lpc = "goodbyeDelete"
    /\ ~services[lping.Name].present
    /\ \A r \in RouteIdentities : apis[r] = << >>

\* C18: no endpoint address is registered under more than one service of
\* the registry, whatever hellos and goodbyes the listener has handled.
C18_AddressUnderOneService ==
    \A k1, k2 \in Registered(services) : k1[2] = k2[2] => k1[1] = k2[1]

\* The endpoints the RouteTable lists under one identity.
Listed(r) == {apis[r][i] : i \in DOMAIN apis[r]}

\* The RouteTable lists an endpoint of service s under r exactly when r is
\* a route of s that is not private to s or exposePrivateAPIs is set.
ListsWhatIsDeclared ==
    \A r \in RouteIdentities, k \in EndpointKeys :
        k \in Listed(r) <=>
            /\ k \in Registered(services)
            /\ r \in services[k[1]].routes
            /\ r \notin services[k[1]].privateRoutes \/ uload.exposePrivateAPIs

Overridden(pub) ==
    IF Len(pub.Endpoint) = 2
    THEN [pub EXCEPT !.Endpoint = <<uload.overrideEndpointAddress[1], pub.Endpoint[2]>>]
    ELSE pub

\* C20: with overrideEndpointAddress configured, the registry holds no
\* address with a port under another host, and every hello and every
\* goodbye that changes the registry is handled under the address of its
\* ping with the host replaced and the port kept, or under the address of
\* the ping itself when that has no port.
C20_OverrideKeepsPort ==
    /\ [](uload.overrideEndpointAddress # NoOverride =>
            \A k \in Registered(services) :
                Len(k[2]) = 2 => k[2][1] = uload.overrideEndpointAddress[1])
    /\ [][(uload.overrideEndpointAddress # NoOverride /\ lpc = "idle"
              /\ lpc' \in {"helloResync", "goodbyeResync"}) =>
             \E pub \in uload.pings :
                /\ lping' = Overridden(pub)
                /\ pub.Status = IF lpc' = "helloResync" THEN serviceStatusHello
                                ELSE serviceStatusGoodbye]_vars

\* A goodbye sent for h1:81 removes the endpoint that the hello for h1:81
\* registered under the overriding host, with port 81.
C20_Witness ==
    /\ uload.overrideEndpointAddress = <<"h3">>
    /\ lpc = "goodbyeResync"
    /\ lping.Endpoint = <<"h3", "81">>
    /\ Registered(services) = {}

(***************************************************************************)
(* Claims about the MovingAverage                                          *)
(***************************************************************************)
RatEq(a, b) == a.num * b.den = b.num * a.den

\* The last n elements of a sequence.
Last(s, n) == SubSeq(s, Len(s) - n + 1, Len(s))

\* C21: after k samples were added to a MovingAverage of capacity N >= 1,
\* Average() is the arithmetic mean of the last min(k, N) of them, and 0
\* when k is 0.
C21_AverageOfTheLastSamples ==
    movingAverage.present =>
        LET k == Len(added)
            m == IF k < movingAverage.size THEN k ELSE movingAverage.size
        IN  /\ k = 0 => IsZero(Average(movingAverage))
            /\ k > 0 => RatEq(Average(movingAverage), Rat(Sum(Last(added, m)), m))
            /\ Len(movingAverage.samples) = m

\* More samples than the capacity were added, the oldest of them larger
\* than every sample that is left.
C21_Witness ==
    /\ movingAverage.present
    /\ movingAverage.size = 2
    /\ added = <<5, 1, 2, 1>>

(***************************************************************************)
(* Claims about paths                                                      *)
(***************************************************************************)
\* C22: whether or not the path begins with '/', when its first segment is
\* v and its second is digits, the version is that number and the identity
\* the third segment; when its first segment is v and its second is not
\* digits, the version is an error and 0; in every other case, the empty
\* path among them, the version is 0 without error and the identity the
\* first segment.
C22_VersionAndIdentity ==
    segments # << >> =>
        LET s == segments.of
            v == extractAPIVersion(path)
        IN  IF Len(s) >= 2 /\ s[1] = <<"v">>
            THEN IF IsDigits(s[2])
                 THEN /\ v = [version |-> Atoi(s[2]), err |-> FALSE]
                      /\ getTargetIdentity(path) = IF Len(s) >= 3 THEN s[3] ELSE << >>
                 ELSE v = [version |-> 0, err |-> TRUE]
            ELSE /\ v = [version |-> 0, err |-> FALSE]
                 /\ getTargetIdentity(path) = s[1]

\* The path /v/47/d is written: version 47, identity d.
C22_Witness ==
    /\ path = <<"/", "v", "/", "4", "7", "/", "d">>
    /\ extractAPIVersion(path).version = 47
    /\ getTargetIdentity(path) = <<"d">>

(***************************************************************************)
(* Claims about the Kafka subscription                                     *)
(***************************************************************************)
\* C33: a call of the function Subscribe returned eventually returns; then
\* the goroutine of the subscription terminates, having closed c exactly
\* once, and sends no further publication on c.  This holds in the retry
\* phase and in the consuming phase, also when the subscriber has stopped
\* receiving from c.
C33_UnsubscribeReturns ==
    /\ (unsubscribePc = "sending") ~> (unsubscribePc = "returned")
    /\ (unsubscribePc = "returned") ~> (subPc = "done" /\ cClosed = 1)
    /\ [](cClosed <= 1)
    /\ [](~sentAfterReturn)

\* What holds of a call that has returned: the goroutine terminates, c is
\* closed once and nothing is sent on it any more.
UnsubscribedGoroutineStops ==
    /\ (unsubscribePc = "returned") ~> (subPc = "done" /\ cClosed = 1)
    /\ [](cClosed <= 1)
    /\ [](~sentAfterReturn)
    /\ [](subPc = "done" => unsubscribePc = "returned")

\* The goroutine waits at its send on a full c that nobody receives from,
\* and the caller of unsubscribe waits at its send.
BlockedAtSend ==
    /\ subPc = "send" /\ cLen = cCap /\ ~reading
    /\ unsubscribePc = "sending"

\* From there, no step of the subscription is possible.
BlockedAtSendIsFinal ==
    [][~BlockedAtSend]_vars

====
